---- MODULE Spec2Model ----
(***************************************************************************)
(* Model of tests/run_scripts.py: the policy table BIN_SCRIPTS, the        *)
(* dependency predicate is_installed, the policy resolution                *)
(* build_cmdline_from_spec, the child execution run_program and the loop   *)
(* and reconciliation of test().                                           *)
(*                                                                         *)
(* Python strings are sequences of one-character strings, so that          *)
(* startswith, index, split and slicing are computed as the code computes  *)
(* them.  Positions are 1-based here and 0-based in the source.            *)
(***************************************************************************)
EXTENDS Integers, Sequences, FiniteSets, TLC

VARIABLES
    BIN_SCRIPTS,    \* the policy table: script name -> specification string
    bin_dir,        \* the entries of BIN_DIR on disk (os.listdir)
    fs,             \* the paths that exist (os.path.exists)
    PATH,           \* os.environ.get('PATH', '')
    version_info,   \* sys.version_info[:2]
    opts,           \* the parsed options: debug, show_output, verbose
    bin_files,      \* sorted(os.listdir(BIN_DIR))
    pc,             \* position of test(): loop, run, wait, done, exited, crashed;
                    \* of a call of is_installed on its own: call, returned
    i,              \* index in bin_files of the script the loop is at
    cmdline,        \* the command line built for the current script
    retval,         \* the result flag of test()
    state,          \* per script: Pending, Skipped, Resolved, Running, Passed, Failed
    children,       \* the child processes spawned so far, in order
    log,            \* the records the logger emitted, in order
    unused_files,   \* the orphaned entries reported by the reconciliation
    exception,      \* the exception that left test() uncaught, or "none"
    exitcode,       \* the exit status of the process, or -1 while it runs
    argument,       \* the program a call of is_installed on its own is given
    installed,      \* what that call returned (FALSE before it returns)
    xfce,           \* a run of xdgconfig/configure-xfce.py
    dconf,          \* two merges of a dump file by xdgconfig/dconf.py
    pep8,           \* a run of tests/pep8_python_files.py
    header,         \* a call of check_copyline of tests/verify_script_headers.py
    colorterm       \* a call of color_index2term of bin/colorterm.py

vars == <<BIN_SCRIPTS, bin_dir, fs, PATH, version_info, opts, bin_files, pc, i,
          cmdline, retval, state, children, log, unused_files, exception,
          exitcode, argument, installed, xfce, dconf, pep8, header, colorterm>>

(***************************************************************************)
(* Bounds of the model.                                                    *)
(***************************************************************************)
\* number of script names the directory and the table are drawn over
NumProgs == 2

(***************************************************************************)
(* Strings.                                                                *)
(***************************************************************************)
\* the characters the model's strings use, in ASCII order
Alphabet == <<" ", "(", ")", ",", "-", ".", "/", "0", "1", "2", "3", "4",
              "5", "6", "7", "8", "9", ":", "=", ">", "[", "]", "a", "b",
              "c", "d", "e", "g", "h", "i", "l", "n", "o", "p", "r", "s",
              "t", "u", "v", "y", "|">>

Ord(c) == CHOOSE k \in 1..Len(Alphabet) : Alphabet[k] = c

\* str.startswith
StartsWith(s, p) == Len(s) >= Len(p) /\ SubSeq(s, 1, Len(p)) = p

\* str.endswith
EndsWith(s, p) == Len(s) >= Len(p) /\ SubSeq(s, Len(s) - Len(p) + 1, Len(s)) = p

\* str.index of one character: its first position, 0 where Python raises
\* ValueError
Index(s, c) ==
    IF \E k \in 1..Len(s) : s[k] = c
    THEN CHOOSE k \in 1..Len(s) : s[k] = c /\ \A j \in 1..(k - 1) : s[j] # c
    ELSE 0

\* str.split(sep) for a one-character separator: every occurrence separates,
\* empty pieces are kept, and the result is never empty
Pieces(s, sep) ==
    LET seps == {k \in 1..Len(s) : s[k] = sep}
        \* the position of the n-th separator, 0 before the first piece and
        \* Len(s) + 1 after the last
        At(n) == IF n = 0 THEN 0
                 ELSE IF n > Cardinality(seps) THEN Len(s) + 1
                 ELSE CHOOSE k \in seps : Cardinality({m \in seps : m < k}) = n - 1
    IN  [n \in 1..(Cardinality(seps) + 1) |-> SubSeq(s, At(n - 1) + 1, At(n) - 1)]

\* the pieces of the value of s (v is bound to the string itself, so that it
\* is computed once)
Split(s, sep) == CHOOSE pieces \in {Pieces(v, sep) : v \in {s}} : TRUE

\* the order of Python strings: lexicographic by character code
RECURSIVE StrLess(_, _)
StrLess(s, t) ==
    IF t = <<>> THEN FALSE
    ELSE IF s = <<>> THEN TRUE
    ELSE IF s[1] # t[1] THEN Ord(s[1]) < Ord(t[1])
    ELSE StrLess(Tail(s), Tail(t))

\* Sorted in descending order
RECURSIVE SortedReversed(_)
SortedReversed(S) ==
    IF S = {} THEN <<>>
    ELSE LET m == CHOOSE x \in S : \A y \in S \ {x} : StrLess(y, x)
         IN  <<m>> \o SortedReversed(S \ {m})

\* sorted() of a set of strings
RECURSIVE Sorted(_)
Sorted(S) ==
    IF S = {} THEN <<>>
    ELSE LET m == CHOOSE x \in S : \A y \in S \ {x} : StrLess(x, y)
         IN  <<m>> \o Sorted(S \ {m})

Range(f) == {f[k] : k \in DOMAIN f}

Digits == {"0", "1", "2", "3", "4", "5", "6", "7", "8", "9"}

\* int() of a string of decimal digits
RECURSIVE ToInt(_)
ToInt(s) ==
    IF s = <<>> THEN 0
    ELSE 10 * ToInt(SubSeq(s, 1, Len(s) - 1)) + (Ord(s[Len(s)]) - Ord("0"))

(***************************************************************************)
(* is_installed.                                                           *)
(***************************************************************************)
\* os.path.exists
exists(path) == path \in fs

\* join putting a separator after every directory, the empty one included
joinWithSeparator(a, b) ==
    IF StartsWith(b, <<"/">>) THEN b ELSE a \o <<"/">> \o b

\* os.path.join of two components (posixpath)
join(a, b) ==
    IF StartsWith(b, <<"/">>) THEN b
    ELSE IF a = <<>> \/ a[Len(a)] = "/" THEN a \o b
    ELSE a \o <<"/">> \o b

PythonGE == <<"p", "y", "t", "h", "o", "n", ">", "=">>

\* re.match(r'^python>=([23])\.([0-9]+)$', program)
MatchesPython(program) ==
    /\ StartsWith(program, PythonGE)
    /\ Len(program) >= Len(PythonGE) + 3
    /\ program[Len(PythonGE) + 1] \in {"2", "3"}
    /\ program[Len(PythonGE) + 2] = "."
    /\ \A k \in (Len(PythonGE) + 3)..Len(program) : program[k] \in Digits

\* VersionGE comparing each field on its own
VersionGEFieldwise(v, w) == v[1] >= w[1] /\ v[2] >= w[2]

\* sys.version_info >= (major, minor): the order of tuples, on the first two
\* fields of version_info (a longer tuple with an equal prefix is greater)
VersionGE(v, w) == v[1] > w[1] \/ (v[1] = w[1] /\ v[2] >= w[2])

is_installed(program) ==
    IF MatchesPython(program)
    THEN VersionGE(version_info,
                   <<ToInt(<<program[Len(PythonGE) + 1]>>),
                     ToInt(SubSeq(program, Len(PythonGE) + 3, Len(program)))>>)
    ELSE IF StartsWith(program, <<"/">>) THEN exists(program)
    ELSE \E pathdir \in Range(Split(PATH, ":")) : exists(join(pathdir, program))

(***************************************************************************)
(* build_cmdline_from_spec.  Its outcomes: a command line, None (the       *)
(* script is not to be run), CheckError, or the ValueError of str.index.   *)
(***************************************************************************)
Outcome(kind, argv, missing, msg) ==
    [kind |-> kind, argv |-> argv, missing |-> missing, msg |-> msg]

Cmdline(argv) == Outcome("cmdline", argv, <<>>, "")

None == Outcome("None", <<>>, <<>>, "")

\* raise CheckError(msg)
CheckError(msg) == Outcome("CheckError", <<>>, <<>>, msg)

\* the ValueError str.index raises
ValueError == Outcome("ValueError", <<>>, <<>>, "substring not found")

S_never == <<"n", "e", "v", "e", "r">>
S_direct == <<"d", "i", "r", "e", "c", "t">>
S_help == <<"h", "e", "l", "p">>
S_args == <<"a", "r", "g", "s", "[">>
S_dashhelp == <<"-", "-", "h", "e", "l", "p">>

\* the condition of line 183 on the choices of one group
ChoicesInstalled(choices) ==
    \A dep \in Range(choices) : is_installed(dep)

\* FirstMissing stopping after the first group
FirstMissingFirstGroupOnly(deps) ==
    IF ~ChoicesInstalled(Split(deps[1], "|")) THEN 1 ELSE 0

\* the loop of lines 181-186: the first group that makes it return None, 0 if
\* none does
FirstMissing(deps) ==
    CHOOSE first \in
        { IF \A ordep \in Range(d) : ChoicesInstalled(Split(ordep, "|")) THEN 0
          ELSE CHOOSE k \in 1..Len(d) :
                  /\ ~ChoicesInstalled(Split(d[k], "|"))
                  /\ \A j \in 1..(k - 1) : ChoicesInstalled(Split(d[j], "|"))
          : d \in {deps} } : TRUE

\* NoneMissing raising instead of returning None
NoneMissingRaises(choices) == CheckError("missing dependency")

\* lines 184-186: None returned by the dependency check, with the choices the
\* debug record names
NoneMissing(choices) == Outcome("None", <<>>, choices, "")

\* SplitArgs as spec[5:-1].split(): runs of spaces separate, no empty token
SplitArgsWhitespace(text) == SelectSeq(Split(text, " "), LAMBDA t : t # <<>>)

\* spec[5:-1].split(' ')
SplitArgs(text) == Split(text, " ")

\* ModeCmdline running the scripts that are never to be run
ModeCmdlineNeverRuns(prog, spec) ==
    IF spec = S_never \/ spec = S_direct THEN Cmdline(<<prog>>)
    ELSE IF spec = S_help THEN Cmdline(<<prog, S_dashhelp>>)
    ELSE IF StartsWith(spec, S_args) /\ EndsWith(spec, <<"]">>)
    THEN Cmdline(<<prog>> \o SplitArgs(SubSeq(spec, Len(S_args) + 1, Len(spec) - 1)))
    ELSE CheckError("unknown specification")

\* ModeCmdline returning None for a specification it does not know
ModeCmdlineUnknownSkips(prog, spec) ==
    IF spec = S_never THEN None
    ELSE IF spec = S_direct THEN Cmdline(<<prog>>)
    ELSE IF spec = S_help THEN Cmdline(<<prog, S_dashhelp>>)
    ELSE IF StartsWith(spec, S_args) /\ EndsWith(spec, <<"]">>)
    THEN Cmdline(<<prog>> \o SplitArgs(SubSeq(spec, Len(S_args) + 1, Len(spec) - 1)))
    ELSE None

\* ModeCmdline with the command lines of direct and help exchanged
ModeCmdlineSwapped(prog, spec) ==
    IF spec = S_never THEN None
    ELSE IF spec = S_direct THEN Cmdline(<<prog, S_dashhelp>>)
    ELSE IF spec = S_help THEN Cmdline(<<prog>>)
    ELSE IF StartsWith(spec, S_args) /\ EndsWith(spec, <<"]">>)
    THEN Cmdline(<<prog>> \o SplitArgs(SubSeq(spec, Len(S_args) + 1, Len(spec) - 1)))
    ELSE CheckError("unknown specification")

\* lines 189-197, on the specification left after the dependency clause
ModeCmdline(prog, spec) ==
    IF spec = S_never THEN None
    ELSE IF spec = S_direct THEN Cmdline(<<prog>>)
    ELSE IF spec = S_help THEN Cmdline(<<prog, S_dashhelp>>)
    ELSE IF StartsWith(spec, S_args) /\ EndsWith(spec, <<"]">>)
    THEN Cmdline(<<prog>> \o SplitArgs(SubSeq(spec, Len(S_args) + 1, Len(spec) - 1)))
    ELSE CheckError("unknown specification")

\* build_cmdline_from_spec validating the mode before the dependencies
build_cmdline_mode_first(prog, spec) ==
    IF StartsWith(spec, <<"(">>)
    THEN LET closing_paren == Index(spec, ")")
         IN  IF closing_paren = 0 THEN ValueError
             ELSE LET deps == Split(SubSeq(spec, 2, closing_paren - 1), ",")
                  IN  CHOOSE r \in
                          { IF m.kind = "CheckError" THEN m
                            ELSE IF bad # 0 THEN NoneMissing(Split(deps[bad], "|"))
                            ELSE m
                            : bad \in {FirstMissing(deps)},
                              m \in {ModeCmdline(prog,
                                        SubSeq(spec, closing_paren + 1, Len(spec)))} }
                          : TRUE
    ELSE ModeCmdline(prog, spec)

\* lines 177-197
build_cmdline_from_spec(prog, spec) ==
    IF StartsWith(spec, <<"(">>)
    THEN LET closing_paren == Index(spec, ")")
         IN  IF closing_paren = 0 THEN ValueError
             ELSE LET deps == Split(SubSeq(spec, 2, closing_paren - 1), ",")
                  IN  CHOOSE r \in
                          { IF bad # 0 THEN NoneMissing(Split(deps[bad], "|"))
                            ELSE ModeCmdline(prog,
                                    SubSeq(spec, closing_paren + 1, Len(spec)))
                            : bad \in {FirstMissing(deps)} } : TRUE
    ELSE ModeCmdline(prog, spec)

(***************************************************************************)
(* The inputs of a run.                                                    *)
(***************************************************************************)
\* script names, in an order that is not the sorted one
NamePool == << <<"b">>, <<"a", "b">>, <<"a">>, <<"c">>, <<"b", "a">> >>

Names == {NamePool[k] : k \in 1..NumProgs}

\* policy strings: the four modes, with and without dependency clauses, and
\* malformed ones
SpecPool ==
    { S_never, S_direct, S_help,
      S_args \o <<"a", ",", " ", "b", ",", " ", "c", "]">>,        \* args[a, b, c]
      S_args \o <<"a", " ", " ", "b", "]">>,                       \* args[a  b]
      S_args \o <<"]">>,                                           \* args[]
      S_args \o <<"a">>,                                           \* args[a
      <<"r", "u", "n">>,                                           \* run
      <<"(", "a", "|", "b", ")">> \o S_direct,                     \* (a|b)direct
      <<"(", "a", ",", "b", ")">> \o S_help,                       \* (a,b)help
      <<"(", "a", ")">> \o S_never,                                \* (a)never
      <<"(", "a", ")">> \o <<"r", "u", "n">>,                      \* (a)run
      <<"(", "a", "|", "b", ",", "b", ")">> \o S_args \o <<"-", "h", "]">>,
                                                                   \* (a|b,b)args[-h]
      <<"(", "a">> \o S_direct }                                   \* (adirect

\* the files the dependencies of SpecPool resolve to
DepFiles == { <<"/", "b", "i", "n", "/", "a">>, <<"/", "b", "i", "n", "/", "b">> }

Options == [debug : BOOLEAN, show_output : BOOLEAN, verbose : BOOLEAN]

NoOptions == [debug |-> FALSE, show_output |-> FALSE, verbose |-> FALSE]

\* what a name is in a run: neither on disk nor declared, on disk without an
\* entry, on disk with an entry, or declared without being on disk.  The value
\* of an entry whose script is not on disk is never read (line 262 takes the
\* keys only), so one value stands for all.
EntryChoices(pool) ==
    { [on_disk |-> d, declared |-> FALSE, spec |-> S_never] : d \in BOOLEAN }
    \cup { [on_disk |-> TRUE, declared |-> TRUE, spec |-> s] : s \in pool }
    \cup { [on_disk |-> FALSE, declared |-> TRUE, spec |-> S_never] }

\* Path to bin/ directory: os.path.join(os.path.dirname(__file__), os.pardir,
\* 'bin') for a run started in tests/, where the dirname is empty
BIN_DIR == <<".", ".", "/", "b", "i", "n">>

ExitCodes == {0, 1}

\* the value of the variable of a program that is not run
NotRun == <<>>

\* the state at line 241, before the first iteration
InitOf(pool, optsPool) ==
    /\ \E entry \in [Names -> EntryChoices(pool)] :
          /\ BIN_SCRIPTS = [n \in {m \in Names : entry[m].declared} |-> entry[n].spec]
          /\ bin_dir = {n \in Names : entry[n].on_disk}
    /\ fs \in SUBSET DepFiles
    /\ PATH = <<"/", "b", "i", "n">>
    /\ version_info = <<3, 6>>
    /\ opts \in optsPool
    /\ bin_files = Sorted(bin_dir)
    /\ pc = "loop"
    /\ i = 1
    /\ cmdline = <<>>
    /\ retval = TRUE
    /\ state = [n \in bin_dir |-> "Pending"]
    /\ children = <<>>
    /\ log = <<>>
    /\ unused_files = {}
    /\ exception = "none"
    /\ exitcode = -1
    /\ argument = <<>>
    /\ installed = FALSE
    /\ xfce = NotRun /\ dconf = NotRun /\ pep8 = NotRun
    /\ header = NotRun /\ colorterm = NotRun

\* every policy of SpecPool, under the default options
Init == InitOf(SpecPool, {NoOptions})

\* policies of each outcome, under every combination of the options
OptionsSpecPool ==
    { S_never, S_direct,
      S_args \o <<"a", ",", " ", "b", ",", " ", "c", "]">>,
      <<"r", "u", "n">>,
      <<"(", "a", "|", "b", ")">> \o S_direct,
      <<"(", "a">> \o S_direct }

InitOptions == InitOf(OptionsSpecPool, Options)

(***************************************************************************)
(* Logging.                                                                *)
(***************************************************************************)
\* logging.basicConfig(level=...) of lines 234-237
LogLevel ==
    IF opts.debug THEN "DEBUG" ELSE IF opts.verbose THEN "INFO" ELSE "WARN"

Rank(level) ==
    CASE level = "DEBUG" -> 1 [] level = "INFO" -> 2
      [] level = "WARN" -> 3 [] level = "ERROR" -> 4

\* one call of logger.debug, logger.info or logger.error
Emit(lg, level, prog, msg) ==
    IF Rank(level) >= Rank(LogLevel)
    THEN Append(lg, [level |-> level, prog |-> prog, msg |-> msg])
    ELSE lg

\* Caught leaving the script as skipped
CaughtMarksSkipped(prog, msg) ==
    /\ log' = Emit(log, "ERROR", prog, msg)
    /\ retval' = FALSE
    /\ state' = [state EXCEPT ![prog] = "Skipped"]
    /\ i' = i + 1
    /\ pc' = "loop"
    /\ cmdline' = <<>>

\* the except clause of lines 257-259
Caught(prog, msg) ==
    /\ log' = Emit(log, "ERROR", prog, msg)
    /\ retval' = FALSE
    /\ state' = [state EXCEPT ![prog] = "Failed"]
    /\ i' = i + 1
    /\ pc' = "loop"
    /\ cmdline' = <<>>

\* an exception no except clause catches leaves test() and the interpreter,
\* which prints the traceback and exits with status 1
Uncaught(exc) ==
    /\ exception' = exc
    /\ pc' = "crashed"
    /\ exitcode' = 1

Env == <<BIN_SCRIPTS, bin_dir, fs, PATH, version_info, opts, bin_files>>

\* test() makes no call of is_installed but through build_cmdline_from_spec
Call == <<argument, installed>>

\* the other programs of the repository, which a run of one of them leaves
\* alone: each is a record of the state of its run, <<>> while it is not run
Others == <<xfce, dconf, pep8, header, colorterm>>

(***************************************************************************)
(* test(): one iteration up to the command line (lines 241-251).           *)
(***************************************************************************)
\* Resolution skipping a script that has no entry
ResolutionSkipsUnknown(prog) ==
    IF prog \notin DOMAIN BIN_SCRIPTS
    THEN None
    ELSE build_cmdline_from_spec(prog, BIN_SCRIPTS[prog])

\* lines 243-248: the lookup in the table and the policy resolution
Resolution(prog) ==
    IF prog \notin DOMAIN BIN_SCRIPTS
    THEN CheckError("unknown program, not in BIN_SCRIPTS")
    ELSE build_cmdline_from_spec(prog, BIN_SCRIPTS[prog])

Resolve ==
    /\ pc = "loop"
    /\ i <= Len(bin_files)
    /\ LET prog == bin_files[i]
           r == Resolution(prog)
       IN  CASE r.kind = "ValueError" ->
                  /\ Uncaught("ValueError")
                  /\ UNCHANGED <<i, cmdline, retval, state, children, log,
                                 unused_files>>
             [] r.kind = "CheckError" ->
                  /\ Caught(prog, r.msg)
                  /\ UNCHANGED <<children, unused_files, exception, exitcode>>
             [] r.kind = "None" ->
                  /\ log' = Emit(IF r.missing # <<>>
                                 THEN Emit(log, "DEBUG", prog,
                                           "skip because missing")
                                 ELSE log,
                                 "DEBUG", prog, "skip")
                  /\ state' = [state EXCEPT ![prog] = "Skipped"]
                  /\ i' = i + 1
                  /\ UNCHANGED <<pc, cmdline, retval, children, unused_files,
                                 exception, exitcode>>
             [] r.kind = "cmdline" ->
                  /\ cmdline' = r.argv
                  /\ state' = [state EXCEPT ![prog] = "Resolved"]
                  /\ pc' = "run"
                  /\ UNCHANGED <<i, retval, children, log, unused_files,
                                 exception, exitcode>>
    /\ UNCHANGED Env
    /\ UNCHANGED Call
    /\ UNCHANGED Others

(***************************************************************************)
(* run_program: the spawn (lines 202-212).  Popen raises OSError when the  *)
(* file cannot be executed; test() catches CheckError only.                *)
(***************************************************************************)
\* Child with the runner's standard input when the output is shown
ChildInheritsStdin(prog, argv) ==
    [ prog |-> prog,
      executable |-> join(BIN_DIR, prog),
      argv |-> argv,
      stdin |-> IF opts.show_output THEN "inherit" ELSE "devnull",
      stdout |-> IF opts.show_output THEN "inherit" ELSE "devnull",
      stderr |-> IF opts.debug \/ opts.verbose THEN "inherit" ELSE "devnull",
      printed |-> opts.show_output,
      status |-> "running",
      exitcode |-> 0 ]

\* Child with the runner's standard error, whatever the options
ChildShowsError(prog, argv) ==
    [ prog |-> prog,
      executable |-> join(BIN_DIR, prog),
      argv |-> argv,
      stdin |-> "devnull",
      stdout |-> IF opts.show_output THEN "inherit" ELSE "devnull",
      stderr |-> "inherit",
      printed |-> opts.show_output,
      status |-> "running",
      exitcode |-> 0 ]

\* Child whose standard error follows --debug alone
ChildErrorOnDebug(prog, argv) ==
    [ prog |-> prog,
      executable |-> join(BIN_DIR, prog),
      argv |-> argv,
      stdin |-> "devnull",
      stdout |-> IF opts.show_output THEN "inherit" ELSE "devnull",
      stderr |-> IF opts.debug THEN "inherit" ELSE "devnull",
      printed |-> opts.show_output,
      status |-> "running",
      exitcode |-> 0 ]

\* subprocess.Popen of lines 206-212, and the print of lines 203-204
Child(prog, argv) ==
    [ prog |-> prog,
      executable |-> join(BIN_DIR, prog),
      argv |-> argv,
      stdin |-> "devnull",
      stdout |-> IF opts.show_output THEN "inherit" ELSE "devnull",
      stderr |-> IF opts.debug \/ opts.verbose THEN "inherit" ELSE "devnull",
      printed |-> opts.show_output,
      status |-> "running",
      exitcode |-> 0 ]

Spawn ==
    /\ pc = "run"
    /\ LET prog == bin_files[i]
       IN  \E executable_ok \in BOOLEAN :
              IF executable_ok
              THEN /\ log' = Emit(log, "INFO", prog, "running")
                   /\ children' = Append(children, Child(prog, cmdline))
                   /\ state' = [state EXCEPT ![prog] = "Running"]
                   /\ pc' = "wait"
                   /\ UNCHANGED <<exception, exitcode>>
              ELSE /\ log' = Emit(log, "INFO", prog, "running")
                   /\ Uncaught("OSError")
                   /\ UNCHANGED <<children, state>>
    /\ UNCHANGED <<i, cmdline, retval, unused_files>>
    /\ UNCHANGED Env
    /\ UNCHANGED Call
    /\ UNCHANGED Others

(***************************************************************************)
(* run_program: process.wait() returns (lines 214-216), and the rest of    *)
(* the iteration.                                                          *)
(***************************************************************************)
\* ChildExit without the test of the exit code
ChildExitIgnoresCode ==
    /\ pc = "wait"
    /\ LET prog == bin_files[i]
       IN  \E code \in ExitCodes :
              /\ children' = [children EXCEPT ![Len(children)] =
                                 [@ EXCEPT !.status = "exited", !.exitcode = code]]
              /\ IF FALSE
                 THEN Caught(prog, "program exited with code")
                 ELSE /\ state' = [state EXCEPT ![prog] = "Passed"]
                      /\ i' = i + 1
                      /\ pc' = "loop"
                      /\ cmdline' = <<>>
                      /\ UNCHANGED <<retval, log>>
    /\ UNCHANGED <<unused_files, exception, exitcode>>
    /\ UNCHANGED Env
    /\ UNCHANGED Call
    /\ UNCHANGED Others

\* ChildExit waiting again after a non-zero exit code
ChildExitRetries ==
    /\ pc = "wait"
    /\ LET prog == bin_files[i]
       IN  \E code \in ExitCodes :
              /\ children' = [children EXCEPT ![Len(children)] =
                                 [@ EXCEPT !.status = "exited", !.exitcode = code]]
              /\ IF code # 0
                 THEN UNCHANGED <<state, i, pc, cmdline, retval, log>>
                 ELSE /\ state' = [state EXCEPT ![prog] = "Passed"]
                      /\ i' = i + 1
                      /\ pc' = "loop"
                      /\ cmdline' = <<>>
                      /\ UNCHANGED <<retval, log>>
    /\ UNCHANGED <<unused_files, exception, exitcode>>
    /\ UNCHANGED Env
    /\ UNCHANGED Call
    /\ UNCHANGED Others

ChildExit ==
    /\ pc = "wait"
    /\ LET prog == bin_files[i]
       IN  \E code \in ExitCodes :
              /\ children' = [children EXCEPT ![Len(children)] =
                                 [@ EXCEPT !.status = "exited", !.exitcode = code]]
              /\ IF code # 0
                 THEN Caught(prog, "program exited with code")
                 ELSE /\ state' = [state EXCEPT ![prog] = "Passed"]
                      /\ i' = i + 1
                      /\ pc' = "loop"
                      /\ cmdline' = <<>>
                      /\ UNCHANGED <<retval, log>>
    /\ UNCHANGED <<unused_files, exception, exitcode>>
    /\ UNCHANGED Env
    /\ UNCHANGED Call
    /\ UNCHANGED Others

(***************************************************************************)
(* test(): the reconciliation and the return (lines 261-269).  The order   *)
(* in which the entries of the set are logged is not modelled.             *)
(***************************************************************************)
\* UnusedFiles with the difference taken the other way
UnusedFilesReversed == Range(bin_files) \ DOMAIN BIN_SCRIPTS

\* set(BIN_SCRIPTS) - set(bin_files)
UnusedFiles == DOMAIN BIN_SCRIPTS \ Range(bin_files)

\* Reconcile run when the loop gets to the last script
ReconcileEarly ==
    /\ pc = "loop"
    /\ i >= Len(bin_files)
    /\ IF UnusedFiles # {}
       THEN /\ log' = Emit(log, "ERROR", <<>>, "declared but not found")
            /\ unused_files' = UnusedFiles
            /\ retval' = FALSE
       ELSE UNCHANGED <<log, unused_files, retval>>
    /\ pc' = "done"
    /\ UNCHANGED <<i, cmdline, state, children, exception, exitcode>>
    /\ UNCHANGED Env
    /\ UNCHANGED Call
    /\ UNCHANGED Others

\* Reconcile with retval = not unused_files
ReconcileOverwrites ==
    /\ pc = "loop"
    /\ i > Len(bin_files)
    /\ IF UnusedFiles # {}
       THEN /\ log' = Emit(log, "ERROR", <<>>, "declared but not found")
            /\ unused_files' = UnusedFiles
            /\ retval' = FALSE
       ELSE /\ retval' = TRUE
            /\ UNCHANGED <<log, unused_files>>
    /\ pc' = "done"
    /\ UNCHANGED <<i, cmdline, state, children, exception, exitcode>>
    /\ UNCHANGED Env
    /\ UNCHANGED Call
    /\ UNCHANGED Others

\* lines 262-269
Reconcile ==
    /\ pc = "loop"
    /\ i > Len(bin_files)
    /\ IF UnusedFiles # {}
       THEN /\ log' = Emit(log, "ERROR", <<>>, "declared but not found")
            /\ unused_files' = UnusedFiles
            /\ retval' = FALSE
       ELSE UNCHANGED <<log, unused_files, retval>>
    /\ pc' = "done"
    /\ UNCHANGED <<i, cmdline, state, children, exception, exitcode>>
    /\ UNCHANGED Env
    /\ UNCHANGED Call
    /\ UNCHANGED Others

\* Exit as sys.exit(test()): True exits with status 1, False with status 0
ExitWithRetval ==
    /\ pc = "done"
    /\ exitcode' = IF retval THEN 1 ELSE 0
    /\ pc' = "exited"
    /\ UNCHANGED <<i, cmdline, retval, state, children, log, unused_files,
                   exception>>
    /\ UNCHANGED Env
    /\ UNCHANGED Call
    /\ UNCHANGED Others

\* sys.exit(0 if test() else 1)
Exit ==
    /\ pc = "done"
    /\ exitcode' = IF retval THEN 0 ELSE 1
    /\ pc' = "exited"
    /\ UNCHANGED <<i, cmdline, retval, state, children, log, unused_files,
                   exception>>
    /\ UNCHANGED Env
    /\ UNCHANGED Call
    /\ UNCHANGED Others

Next == Resolve \/ Spawn \/ ChildExit \/ Reconcile \/ Exit

Spec == Init /\ [][Next]_vars

SpecOptions == InitOptions /\ [][Next]_vars

\* the runner goes on whenever it can (it is one sequential thread), and a
\* child that was spawned terminates
SpecFair ==
    /\ Init /\ [][Next]_vars
    /\ WF_vars(Resolve \/ Spawn \/ Reconcile \/ Exit)
    /\ WF_vars(ChildExit)

(***************************************************************************)
(* is_installed on its own: one call, on a dependency token, under a file  *)
(* system, a PATH and an interpreter version.                              *)
(***************************************************************************)
\* dependency tokens: those of BIN_SCRIPTS (python>=3.6, python>=3.7, /proc,
\* names), and others of the three kinds
ProgramPool ==
    { <<"p", "y", "t", "h", "o", "n", ">", "=", "2", ".", "7">>,         \* python>=2.7
      <<"p", "y", "t", "h", "o", "n", ">", "=", "3", ".", "6">>,         \* python>=3.6
      <<"p", "y", "t", "h", "o", "n", ">", "=", "3", ".", "7">>,         \* python>=3.7
      <<"p", "y", "t", "h", "o", "n", ">", "=", "3", ".", "1", "0">>,    \* python>=3.10
      <<"p", "y", "t", "h", "o", "n", ">", "=", "1", ".", "5">>,         \* python>=1.5
      <<"p", "y", "t", "h", "o", "n", ">", "=", "4", ".", "0">>,         \* python>=4.0
      <<"p", "y", "t", "h", "o", "n", ">", "=", "3">>,                   \* python>=3
      <<"/", "p", "r", "o", "c">>,                                       \* /proc
      <<"/", "b", "i", "n", "/", "a">>,                                  \* /bin/a
      <<"a">>,                                                           \* a
      <<"b">>,                                                           \* b
      <<"p", "y", "t", "h", "o", "n">> }                                 \* python

\* the paths that may exist: entries of /bin and /usr/bin, of the current
\* directory (a), and /proc
FilePool ==
    { <<"/", "b", "i", "n", "/", "a">>,                                  \* /bin/a
      <<"/", "u", "s", "r", "/", "b", "i", "n", "/", "a">>,              \* /usr/bin/a
      <<"/", "u", "s", "r", "/", "b", "i", "n", "/", "b">>,              \* /usr/bin/b
      <<"a">>,                                                           \* a
      <<"/", "p", "r", "o", "c">>,                                       \* /proc
      <<"/", "b", "i", "n", "/", "p", "y", "t", "h", "o", "n", ">", "=", "1", ".", "5">> } \* /bin/python>=1.5

\* values of os.environ.get('PATH', '')
PATHPool ==
    { <<"/", "b", "i", "n">>,                                            \* /bin
      <<"/", "b", "i", "n", ":", "/", "u", "s", "r", "/", "b", "i", "n">>, \* /bin:/usr/bin
      <<"/", "u", "s", "r", "/", "b", "i", "n", "/">>,                   \* /usr/bin/
      <<>>,                                                              \* ''
      <<"/", "b", "i", "n", ":">> }                                      \* /bin:

\* sys.version_info[:2] of interpreters the script runs under
VersionPool == { <<2, 7>>, <<3, 5>>, <<3, 6>>, <<3, 10>> }

InitInstalled ==
    /\ argument \in ProgramPool
    /\ fs \in SUBSET FilePool
    /\ PATH \in PATHPool
    /\ version_info \in VersionPool
    /\ installed = FALSE
    /\ pc = "call"
    /\ BIN_SCRIPTS = <<>>
    /\ bin_dir = {}
    /\ opts = NoOptions
    /\ bin_files = <<>>
    /\ i = 1
    /\ cmdline = <<>>
    /\ retval = TRUE
    /\ state = <<>>
    /\ children = <<>>
    /\ log = <<>>
    /\ unused_files = {}
    /\ exception = "none"
    /\ exitcode = -1
    /\ xfce = NotRun /\ dconf = NotRun /\ pep8 = NotRun
    /\ header = NotRun /\ colorterm = NotRun

\* installed = is_installed(argument)
CallIsInstalled ==
    /\ pc = "call"
    /\ installed' = is_installed(argument)
    /\ pc' = "returned"
    /\ UNCHANGED <<argument, i, cmdline, retval, state, children, log,
                   unused_files, exception, exitcode>>
    /\ UNCHANGED Env
    /\ UNCHANGED Others

NextInstalled == CallIsInstalled

SpecInstalled == InitInstalled /\ [][NextInstalled]_vars

(***************************************************************************)
(* The other programs.  While one of them runs, run_scripts.py is not run: *)
(* its variables keep the values of an empty run.                          *)
(***************************************************************************)
RunScripts == <<Env, Call, i, cmdline, retval, state, children, log,
                unused_files, exception, exitcode>>

RunScriptsNotRun ==
    /\ BIN_SCRIPTS = <<>>
    /\ bin_dir = {}
    /\ fs = {}
    /\ PATH = <<>>
    /\ version_info = <<3, 6>>
    /\ opts = NoOptions
    /\ bin_files = <<>>
    /\ i = 1
    /\ cmdline = <<>>
    /\ retval = TRUE
    /\ state = <<>>
    /\ children = <<>>
    /\ log = <<>>
    /\ unused_files = {}
    /\ exception = "none"
    /\ exitcode = -1
    /\ argument = <<>>
    /\ installed = FALSE

(***************************************************************************)
(* bin/colorterm.py: the 256-colour table and color_index2term.  A colour  *)
(* is the integer 0xRRGGBB; a list index k of the source is k + 1 here.    *)
(***************************************************************************)
\* how far the indices of the calls go beyond the table at both ends
IndexMargin == 3

\* Show black color on a white background
BLACK_ON_WHITE == FALSE

\* 16-colors index table (0x000000, 0x800000, ... 0xffffff)
COLORS16_RGB ==
    << 0, 8388608, 32768, 8421376,
       128, 8388736, 32896, 12632256,
       8421504, 16711680, 65280, 16776960,
       255, 16711935, 65535, 16777215 >>

colors6 == <<0, 95, 135, 175, 215, 255>>

\* range(start, stop, step) for a positive step
range(start, stop, step) ==
    [k \in 1..((stop - start + step - 1) \div step) |-> start + (k - 1) * step]

\* the three nested loops over colors6 of lines 22-25, in their order:
\* (r << 16) | (g << 8) | b of three values below 256
Cube ==
    [k \in 1..(Len(colors6) * Len(colors6) * Len(colors6)) |->
        LET r == colors6[((k - 1) \div (Len(colors6) * Len(colors6))) + 1]
            g == colors6[(((k - 1) \div Len(colors6)) % Len(colors6)) + 1]
            b == colors6[((k - 1) % Len(colors6)) + 1]
        IN  r * 65536 + g * 256 + b]

\* 24 shades of gray: [0x010101 * i for i in range(8, 239, 10)]
Grays == [k \in DOMAIN range(8, 239, 10) |-> 65793 * range(8, 239, 10)[k]]

build_colors256 == COLORS16_RGB \o Cube \o Grays

COLORS256_RGB == build_colors256

\* what a call gives: the string returned, as the sequence of its formatted
\* entries (the empty string is <<>>), or the exception raised
Returned(text) == [raised |-> "none", text |-> text]

Raised(exc) == [raised |-> exc, text |-> <<>>]

\* lines 35-54
color_index2term(index) ==
    IF index < 0 \/ index > 256 THEN Returned(<<>>)
    ELSE IF index + 1 \notin DOMAIN COLORS256_RGB THEN Raised("IndexError")
    ELSE LET color == COLORS256_RGB[index + 1]
             r == (color \div 65536) % 256
             g == (color \div 256) % 256
             b == color % 256
             escape == IF index < 8 THEN <<30 + index>>
                       ELSE IF index < 16 THEN <<90 - 8 + index>>
                       ELSE <<38, 5, index>>
         IN  Returned(<< [escape |-> IF BLACK_ON_WHITE /\ r < 10 /\ g < 10 /\ b < 10
                                     THEN escape \o <<107>> ELSE escape,
                          index |-> index, r |-> r, g |-> g, b |-> b] >>)

InitColorterm ==
    /\ colorterm \in { [index |-> n, result |-> Returned(<<>>)] :
                          n \in (0 - IndexMargin)..(255 + IndexMargin) }
    /\ pc = "index2term"
    /\ xfce = NotRun /\ dconf = NotRun /\ pep8 = NotRun /\ header = NotRun
    /\ RunScriptsNotRun

CallColorIndex2Term ==
    /\ pc = "index2term"
    /\ colorterm' = [colorterm EXCEPT !.result = color_index2term(colorterm.index)]
    /\ pc' = "index2term_done"
    /\ UNCHANGED <<RunScripts, xfce, dconf, pep8, header>>

NextColorterm == CallColorIndex2Term

SpecColorterm == InitColorterm /\ [][NextColorterm]_vars

(***************************************************************************)
(* tests/verify_script_headers.py: check_copyline.                         *)
(***************************************************************************)
\* the characters the year texts of the calls are made of
YearChars == {"-", "0", "1", "2", "3", "4", "9"}

\* int() of a string of digits and hyphens: an optional sign and decimal
\* digits, or ValueError
int(text) ==
    IF text # <<>> /\ \A k \in 1..Len(text) : text[k] \in Digits
    THEN [raised |-> "none", value |-> ToInt(text)]
    ELSE IF /\ Len(text) >= 2 /\ text[1] = "-"
            /\ \A k \in 2..Len(text) : text[k] \in Digits
    THEN [raised |-> "none", value |-> 0 - ToInt(Tail(text))]
    ELSE [raised |-> "ValueError", value |-> 0]

CopyrightPrefix == <<"C", "o", "p", "y", "r", "i", "g", "h", "t", " ", "(", "c", ")", " ">>

\* re.match(r'Copyright \(c\) ([-0-9]+) (.*)$', copyline): group 1, or
\* "no match"
MatchCopyline(copyline) ==
    IF ~StartsWith(copyline, CopyrightPrefix) THEN [matched |-> FALSE, year |-> <<>>]
    ELSE LET rest == SubSeq(copyline, Len(CopyrightPrefix) + 1, Len(copyline))
             space == Index(rest, " ")
         IN  IF /\ space > 1
                /\ \A k \in 1..(space - 1) : rest[k] \in Digits \cup {"-"}
             THEN [matched |-> TRUE, year |-> SubSeq(rest, 1, space - 1)]
             ELSE [matched |-> FALSE, year |-> <<>>]

\* YearCheck accepting a range of two equal years
YearCheckNotStrict(year) ==
    IF Len(year) = 4
    THEN IF int(year).raised # "none" THEN ValueError
         ELSE IF ~(2013 <= int(year).value /\ int(year).value < 2142)
         THEN CheckError("Copyright year out of range")
         ELSE None
    ELSE IF Len(year) = 9 /\ year[5] = "-"
    THEN LET first == int(SubSeq(year, 1, 4))
             last == int(SubSeq(year, 6, 9))
         IN  IF first.raised # "none" THEN ValueError
             ELSE IF ~(2013 <= first.value)
             THEN CheckError("Copyright years out of range")
             ELSE IF last.raised # "none" THEN ValueError
             ELSE IF ~(first.value <= last.value /\ last.value < 2142)
             THEN CheckError("Copyright years out of range")
             ELSE None
    ELSE CheckError("Copyright year in an unknown format")

\* the body of the try statement, lines 98-105; the chained comparison of
\* line 102 converts its second year only when the first is at least 2013
YearCheck(year) ==
    IF Len(year) = 4
    THEN IF int(year).raised # "none" THEN ValueError
         ELSE IF ~(2013 <= int(year).value /\ int(year).value < 2142)
         THEN CheckError("Copyright year out of range")
         ELSE None
    ELSE IF Len(year) = 9 /\ year[5] = "-"
    THEN LET first == int(SubSeq(year, 1, 4))
             last == int(SubSeq(year, 6, 9))
         IN  IF first.raised # "none" THEN ValueError
             ELSE IF ~(2013 <= first.value)
             THEN CheckError("Copyright years out of range")
             ELSE IF last.raised # "none" THEN ValueError
             ELSE IF ~(first.value < last.value /\ last.value < 2142)
             THEN CheckError("Copyright years out of range")
             ELSE None
    ELSE CheckError("Copyright year in an unknown format")

\* lines 91-107: it returns None or raises
check_copyline(copyline) ==
    IF ~MatchCopyline(copyline).matched
    THEN CheckError("Copyright line is wrongly formatted")
    ELSE CHOOSE r \in
            { IF checked.kind = "ValueError"
              THEN CheckError("Copyright year is not an integer")
              ELSE checked
              : checked \in {YearCheck(MatchCopyline(copyline).year)} } : TRUE

\* year texts of four characters that are years at the limits of the range,
\* or no year
FourPool ==
    { <<"2", "0", "1", "2">>,
      <<"2", "0", "1", "3">>,
      <<"2", "0", "1", "4">>,
      <<"2", "1", "4", "1">>,
      <<"2", "1", "4", "2">>,
      <<"0", "0", "0", "0">>,
      <<"9", "9", "9", "9">>,
      <<"-", "2", "0", "1">>,
      <<"2", "0", "-", "3">>,
      <<"2", "0", "1", "-">> }

\* the year texts of the calls: every text of four characters of YearChars,
\* the texts of nine characters made of two texts of FourPool around a hyphen
\* or a digit, and texts of other lengths
YearPool ==
    { [k \in 1..4 |-> f[k]] : f \in [1..4 -> YearChars] }
    \cup { a \o <<sep>> \o b : a \in FourPool, b \in FourPool, sep \in {"-", "0"} }
    \cup { <<"2", "0", "1", "3", "-", "1", "4">>,
           <<"2", "0", "1", "3", "2", "0", "1", "4">>,
           <<"2", "0", "1", "3", "-", "2", "0", "1", "4", "1">>,
           <<"1", "3">>,
           <<"-">>,
           <<"2", "0", "1", "3", "3">> }

\* the lines of the calls: a year text and a name after the prefix, and lines
\* the pattern does not match; with each line, whether the pattern matches
\* it and the year text it has
CopylinePool ==
    { [copyline |-> CopyrightPrefix \o y \o <<" ", "N">>, matches |-> TRUE, year |-> y]
         : y \in YearPool }
    \cup { [copyline |-> c, matches |-> FALSE, year |-> <<>>] : c \in
             { <<"C", "o", "p", "y", "r", "i", "g", "h", "t", " ", "2", "0", "1", "3", " ", "N">>,
               <<"C", "o", "p", "y", "r", "i", "g", "h", "t", " ", "(", "c", ")", " ", "2", "0", "1", "3">>,
               <<"C", "o", "p", "y", "r", "i", "g", "h", "t", " ", "(", "c", ")", " ", " ", "N">>,
               <<"C", "o", "p", "y", "r", "i", "g", "h", "t", " ", "(", "c", ")", " ", "2", "0", "a", "3", " ", "N">>,
               <<" ", "C", "o", "p", "y", "r", "i", "g", "h", "t", " ", "(", "c", ")", " ", "2", "0", "1", "3", " ", "N">>,
               <<"C", "o", "p", "y", "r", "i", "g", "h", "t", " ", "(", "c", ")", " ", "2", "0", "1", "3", "-", "2", "0", "1", "4", "N">> } }

InitHeader ==
    /\ \E c \in CopylinePool : header = [input |-> c, result |-> None]
    /\ pc = "copyline"
    /\ xfce = NotRun /\ dconf = NotRun /\ pep8 = NotRun /\ colorterm = NotRun
    /\ RunScriptsNotRun

CallCheckCopyline ==
    /\ pc = "copyline"
    /\ header' = [header EXCEPT !.result = check_copyline(header.input.copyline)]
    /\ pc' = "copyline_done"
    /\ UNCHANGED <<RunScripts, xfce, dconf, pep8, colorterm>>

NextHeader == CallCheckCopyline

SpecHeader == InitHeader /\ [][NextHeader]_vars

(***************************************************************************)
(* xdgconfig/dconf.py: merge_dumpfile, run twice on the same dump file     *)
(* against a dconf database in which a read gives the value last written.  *)
(***************************************************************************)
\* the number of options of the dump file
MaxOptions == 2

\* sections and options of the dump files, as dconf dump writes them (a
\* section is a directory, an option a key name without a slash, so that
\* the options of a file name distinct keys), and the values of the options
\* and of the database
SectionPool == { <<"a">>, <<"a", "/", "b">> }

OptionPool == { <<"k">>, <<"c">> }

ValuePool == { <<"1">>, <<"2">> }

\* the dump file as ConfigParser gives it: its options in the order of
\* config.sections() and config.options(section), no option twice
ConfigPool ==
    { c \in UNION { [1..n -> [section : SectionPool, key : OptionPool,
                              value : ValuePool]] : n \in 0..MaxOptions } :
         \A j, k \in DOMAIN c :
            (c[j].section = c[k].section /\ c[j].key = c[k].key) => j = k }

\* directory + key of line 108
DconfKey(option) == <<"/">> \o option.section \o <<"/">> \o option.key

DconfKeys == { DconfKey([section |-> sec, key |-> k, value |-> <<>>]) :
                  sec \in SectionPool, k \in OptionPool }

\* the condition of line 92 always true
NeedsWriteAlways(old_value, value) == TRUE

\* line 92
NeedsWrite(old_value, value) == old_value # value

InitDconf ==
    /\ \E config \in ConfigPool, onlyprint \in BOOLEAN,
          db \in [DconfKeys -> {<<>>, <<"1">>}] :
          dconf = [config |-> config, onlyprint |-> onlyprint, db |-> db,
                   db0 |-> db, merge |-> 1, k |-> 1, calls |-> <<>>,
                   raised |-> "none"]
    /\ pc = "merge"
    /\ xfce = NotRun /\ pep8 = NotRun /\ header = NotRun /\ colorterm = NotRun
    /\ RunScriptsNotRun

\* one call of Dconf.write_if_needed (lines 87-94) on the next option: the
\* read, and the write when the values differ; a dconf command that exits
\* non-zero raises DconfError, which nothing catches
WriteIfNeeded ==
    /\ pc = "merge"
    /\ dconf.k <= Len(dconf.config)
    /\ LET option == dconf.config[dconf.k]
           key == DconfKey(option)
           old_value == dconf.db[key]
           write == NeedsWrite(old_value, option.value)
           command == write /\ ~dconf.onlyprint
           call == [merge |-> dconf.merge, key |-> key, value |-> option.value,
                    old_value |-> old_value, write |-> write,
                    command |-> command]
       IN  \E outcome \in {"done", "read fails", "write fails"} :
              CASE outcome = "read fails" ->
                     /\ dconf' = [dconf EXCEPT
                           !.calls = Append(@, [call EXCEPT !.write = FALSE,
                                                            !.command = FALSE]),
                           !.raised = "DconfError"]
                     /\ pc' = "merge_raised"
                [] outcome = "write fails" ->
                     /\ command
                     /\ dconf' = [dconf EXCEPT !.calls = Append(@, call),
                                               !.raised = "DconfError"]
                     /\ pc' = "merge_raised"
                [] outcome = "done" ->
                     /\ dconf' = [dconf EXCEPT
                           !.calls = Append(@, call),
                           !.db = IF command
                                  THEN [@ EXCEPT ![key] = option.value] ELSE @,
                           !.k = @ + 1]
                     /\ pc' = pc
    /\ UNCHANGED <<RunScripts, xfce, pep8, header, colorterm>>

\* merge_dumpfile returns; the second merge starts after the first
MergeReturns ==
    /\ pc = "merge"
    /\ dconf.k > Len(dconf.config)
    /\ IF dconf.merge = 1
       THEN /\ dconf' = [dconf EXCEPT !.merge = 2, !.k = 1]
            /\ pc' = pc
       ELSE /\ pc' = "merged"
            /\ UNCHANGED dconf
    /\ UNCHANGED <<RunScripts, xfce, pep8, header, colorterm>>

NextDconf == WriteIfNeeded \/ MergeReturns

SpecDconf == InitDconf /\ [][NextDconf]_vars

(***************************************************************************)
(* tests/pep8_python_files.py: test().                                     *)
(***************************************************************************)
\* the number of files os.walk gives
MaxFiles == 2

\* str.lower, on the letters of the file names
Lower(text) ==
    [k \in DOMAIN text |->
        CASE text[k] = "P" -> "p" [] text[k] = "Y" -> "y" [] OTHER -> text[k]]

\* sub in text
Contains(text, sub) ==
    \E k \in 1..(Len(text) - Len(sub) + 1) : SubSeq(text, k, k + Len(sub) - 1) = sub

\* the commands of line 53 in the opposite order
PEP8_COMMANDS_REVERSED == <<"pep8", "pycodestyle", "flake8">>

\* line 53
PEP8_COMMANDS == <<"flake8", "pycodestyle", "pep8">>

\* what check_output([cmd, '--help']) does: OSError with errno ENOENT (no
\* such command), another OSError, CalledProcessError (it exits non-zero),
\* or a help text, of an old pep8 when it has no --max-line-length
ProbeOutcomes == {"ENOENT", "OSError", "CalledProcessError", "help", "old help"}

\* the files of the walk, each with whether it is a python file that is to
\* be checked
WalkPool ==
    { \* ../bin/a.py
      [dirpath |-> <<".", ".", "/", "b", "i", "n">>,
       filename |-> <<"a", ".", "p", "y">>,
       firstline |-> <<>>, python |-> TRUE],
      \* ../bin/b.PY
      [dirpath |-> <<".", ".", "/", "b", "i", "n">>,
       filename |-> <<"b", ".", "P", "Y">>,
       firstline |-> <<>>, python |-> TRUE],
      \* ../bin/c (#!python)
      [dirpath |-> <<".", ".", "/", "b", "i", "n">>,
       filename |-> <<"c">>,
       firstline |-> <<"#", "!", "p", "y", "t", "h", "o", "n">>, python |-> TRUE],
      \* ../bin/d (#!sh)
      [dirpath |-> <<".", ".", "/", "b", "i", "n">>,
       filename |-> <<"d">>,
       firstline |-> <<"#", "!", "s", "h">>, python |-> FALSE],
      \* ../bin/e.pyc
      [dirpath |-> <<".", ".", "/", "b", "i", "n">>,
       filename |-> <<"e", ".", "p", "y", "c">>,
       firstline |-> <<>>, python |-> FALSE],
      \* ../.git/f.py
      [dirpath |-> <<".", ".", "/", ".", "g", "i", "t">>,
       filename |-> <<"f", ".", "p", "y">>,
       firstline |-> <<>>, python |-> FALSE],
      \* ../dotfiles/toprc
      [dirpath |-> <<".", ".", "/", "d", "o", "t", "f", "i", "l", "e", "s">>,
       filename |-> <<"t", "o", "p", "r", "c">>,
       firstline |-> <<>>, python |-> FALSE],
      \* ../bin/toprc (python)
      [dirpath |-> <<".", ".", "/", "b", "i", "n">>,
       filename |-> <<"t", "o", "p", "r", "c">>,
       firstline |-> <<"p", "y", "t", "h", "o", "n">>, python |-> TRUE] }

\* sys.version_info[:2]
Pep8VersionPool == { <<2, 6>>, <<2, 7>>, <<3, 6>> }

\* lines 79-95: the file is skipped
Skipped(file) ==
    \/ Contains(file.dirpath, <<"/", ".", "g", "i", "t">>)
    \/ file.filename = <<"t", "o", "p", "r", "c">>
          /\ EndsWith(file.dirpath, <<"d", "o", "t", "f", "i", "l", "e", "s">>)
    \/ IF ~Contains(file.filename, <<".">>)
       THEN ~Contains(file.firstline, <<"p", "y", "t", "h", "o", "n">>)
       ELSE ~EndsWith(Lower(file.filename), <<".", "p", "y">>)

InitPep8 ==
    /\ \E v \in Pep8VersionPool,
          files \in UNION { [1..n -> WalkPool] : n \in 0..MaxFiles } :
          /\ \A j, k \in DOMAIN files : files[j] = files[k] => j = k
          /\ pep8 = [version_info |-> v, files |-> files, cmd |-> 1,
                     probed |-> <<>>, pep8cmd |-> "None",
                     maxline_option |-> "--max-line-length=120",
                     retval |-> 0, k |-> 1, checked |-> <<>>,
                     returned |-> -1, raised |-> "none"]
    /\ pc = "pep8"
    /\ xfce = NotRun /\ dconf = NotRun /\ header = NotRun /\ colorterm = NotRun
    /\ RunScriptsNotRun

\* lines 43-45
Pep8VersionCheck ==
    /\ pc = "pep8"
    /\ IF ~VersionGE(pep8.version_info, <<2, 7>>)
       THEN /\ pep8' = [pep8 EXCEPT !.returned = 2]
            /\ pc' = "pep8_returned"
       ELSE /\ pc' = "pep8_probe"
            /\ UNCHANGED pep8
    /\ UNCHANGED <<RunScripts, xfce, dconf, header, colorterm>>

\* one iteration of the loop of lines 53-69
Pep8Probe ==
    /\ pc = "pep8_probe"
    /\ pep8.cmd <= Len(PEP8_COMMANDS)
    /\ \E outcome \in ProbeOutcomes :
          LET cmd == PEP8_COMMANDS[pep8.cmd]
              probed == Append(pep8.probed, [cmd |-> cmd, outcome |-> outcome])
          IN  CASE outcome = "ENOENT" ->
                     /\ pep8' = [pep8 EXCEPT !.probed = probed, !.cmd = @ + 1]
                     /\ pc' = pc
                [] outcome = "OSError" ->
                     /\ pep8' = [pep8 EXCEPT !.probed = probed,
                                             !.raised = "OSError"]
                     /\ pc' = "pep8_raised"
                [] outcome = "CalledProcessError" ->
                     /\ pep8' = [pep8 EXCEPT !.probed = probed, !.returned = 1]
                     /\ pc' = "pep8_returned"
                [] outcome \in {"help", "old help"} ->
                     /\ pep8' = [pep8 EXCEPT
                           !.probed = probed,
                           !.maxline_option = IF outcome = "old help"
                                              THEN "--ignore=E501" ELSE @,
                           !.pep8cmd = cmd]
                     /\ pc' = "pep8_walk"
    /\ UNCHANGED <<RunScripts, xfce, dconf, header, colorterm>>

\* lines 71-73
Pep8NoCommand ==
    /\ pc = "pep8_probe"
    /\ pep8.cmd > Len(PEP8_COMMANDS)
    /\ pep8' = [pep8 EXCEPT !.returned = 2]
    /\ pc' = "pep8_returned"
    /\ UNCHANGED <<RunScripts, xfce, dconf, header, colorterm>>

\* one file of the walk (lines 77-103)
Pep8File ==
    /\ pc = "pep8_walk"
    /\ pep8.k <= Len(pep8.files)
    /\ LET file == pep8.files[pep8.k]
       IN  IF Skipped(file)
           THEN pep8' = [pep8 EXCEPT !.k = @ + 1]
           ELSE \E failed \in BOOLEAN :
                   pep8' = [pep8 EXCEPT
                      !.k = @ + 1,
                      !.checked = Append(@, [cmd |-> pep8.pep8cmd,
                                             option |-> pep8.maxline_option,
                                             file |-> file, failed |-> failed]),
                      !.retval = IF failed THEN 1 ELSE @]
    /\ pc' = pc
    /\ UNCHANGED <<RunScripts, xfce, dconf, header, colorterm>>

\* line 104
Pep8Return ==
    /\ pc = "pep8_walk"
    /\ pep8.k > Len(pep8.files)
    /\ pep8' = [pep8 EXCEPT !.returned = pep8.retval]
    /\ pc' = "pep8_returned"
    /\ UNCHANGED <<RunScripts, xfce, dconf, header, colorterm>>

NextPep8 ==
    Pep8VersionCheck \/ Pep8Probe \/ Pep8NoCommand \/ Pep8File \/ Pep8Return

SpecPep8 == InitPep8 /\ [][NextPep8]_vars

(***************************************************************************)
(* xdgconfig/configure-xfce.py: main().  A command line of xfconf-query is *)
(* a record of its operation (version, get, set), its channel, its         *)
(* property and the value it sets; a property path and a command of a      *)
(* shortcut are tuples of the parts they are formatted from.               *)
(***************************************************************************)
\* the number of panels of the desktop
MaxPanels == 2

\* a property that has no value (try_run returns None)
NoValue == <<>>

\* SHORTCUTS, each command line as cmdline.split(None, 1) gives it
SHORTCUTS ==
    << [key |-> "<Alt>F3",
        progs |-> << <<"urxvt">>, <<"xfce4-terminal">>,
                     <<"exo-open", "--launch TerminalEmulator">> >>],
       [key |-> "<Primary><Alt>l", progs |-> << <<"xflock4">> >>],
       [key |-> "Print", progs |-> << <<"xfce4-screenshooter">> >>] >>

ShortcutKeys == {SHORTCUTS[n].key : n \in DOMAIN SHORTCUTS}

\* the command lines of the runs: -n is --dry-run, -r is --real, -v is
\* --verbose
ArgvPool ==
    { <<>>, <<"-n">>, <<"-v">>, <<"-n", "-v">>, <<"-r">>, <<"-r", "-v">>,
      <<"-r", "-n">>, <<"-n", "-r">> }

\* args.real with True as the default value of the destination
ParseRealDefaultTrue(argv) ==
    IF \E n \in DOMAIN argv : argv[n] \in {"-n", "-r"}
    THEN LET last == CHOOSE n \in DOMAIN argv :
                        /\ argv[n] \in {"-n", "-r"}
                        /\ \A m \in DOMAIN argv : argv[m] \in {"-n", "-r"} => m <= n
         IN  argv[last] = "-r"
    ELSE TRUE

\* args.real of lines 383-387: -n and -r store False and True in the same
\* destination, whose default is False; the last of them on the command
\* line decides
ParseReal(argv) ==
    IF \E n \in DOMAIN argv : argv[n] \in {"-n", "-r"}
    THEN LET last == CHOOSE n \in DOMAIN argv :
                        /\ argv[n] \in {"-n", "-r"}
                        /\ \A m \in DOMAIN argv : argv[m] \in {"-n", "-r"} => m <= n
         IN  argv[last] = "-r"
    ELSE FALSE

ParseVerbose(argv) == \E n \in DOMAIN argv : argv[n] = "-v"

\* the programs that exist, as <<directory, name>>
ProgramsPool ==
    { {},
      { <<"/usr/bin", "urxvt">>, <<"/usr/bin", "xflock4">>,
        <<"/bin", "xfce4-screenshooter">> },
      { <<"/usr/bin", "exo-open">>, <<"/sbin", "xflock4">>,
        <<"/bin", "xflock4">> } }

\* find_prog_in_path: '{0}/{1}'.format(path_dir, prog) of the first directory
\* that has the program, or None
find_prog_in_path(programs, prog) ==
    LET dirs == <<"/usr/bin", "/usr/sbin", "/bin", "/sbin">>
        found == {n \in DOMAIN dirs : <<dirs[n], prog>> \in programs}
    IN  IF found = {} THEN NoValue
        ELSE <<dirs[CHOOSE n \in found : \A m \in found : n <= m], prog>>

\* lines 128-133: the command of the first program of progs that exists,
\* ' '.join(cmd_split), or None
FirstAvailable(programs, progs) ==
    LET avail == {n \in DOMAIN progs :
                     find_prog_in_path(programs, progs[n][1]) # NoValue}
    IN  IF avail = {} THEN NoValue
        ELSE LET n == CHOOSE a \in avail : \A b \in avail : a <= b
             IN  find_prog_in_path(programs, progs[n][1]) \o Tail(progs[n])

\* the values of the shortcuts in the channel xfce4-keyboard-shortcuts:
\* none, those the second set of ProgramsPool leads to, or another command
ShortcutsPool ==
    { [k \in ShortcutKeys |-> NoValue],
      [k \in ShortcutKeys |-> <<"xterm">>],
      [k \in ShortcutKeys |->
          CASE k = "<Alt>F3" -> <<"/usr/bin", "urxvt">>
            [] k = "<Primary><Alt>l" -> <<"/usr/bin", "xflock4">>
            [] k = "Print" -> <<"/bin", "xfce4-screenshooter">>] }

\* Xfce4Panels.panel_properties: Key => type, default value
panel_properties ==
    << <<"autohide-behavior", "int", 0>>, <<"length", "int", 0>>,
       <<"plugin-ids", "[int]", <<>> >>, <<"position", "str", "">>,
       <<"position-locked", "bool", FALSE>>, <<"size", "int", 0>> >>

Panel(position, locked, length, autohide, plugins) ==
    [prop \in {panel_properties[n][1] : n \in DOMAIN panel_properties} |->
        CASE prop = "autohide-behavior" -> autohide
          [] prop = "length" -> length
          [] prop = "plugin-ids" -> plugins
          [] prop = "position" -> position
          [] prop = "position-locked" -> locked
          [] prop = "size" -> 30]

\* the panels of the desktop: bottom and top panels that are and are not as
\* configure() wants them, and a panel elsewhere
PanelPool ==
    { Panel("p=10;x=0;y=0", FALSE, 100, 0, <<>>),
      Panel("p=10;x=0;y=0", TRUE, 0, 2, <<>>),
      Panel("p=6;x=0;y=0", FALSE, 50, 2, <<3>>),
      Panel("p=6;x=0;y=0", TRUE, 100, 0, <<>>),
      Panel("p=8;x=0;y=0", FALSE, 50, 1, <<>>) }

\* the value of /panels: the identifiers 1..n, or an identifier twice
PanelIdsPool == { [k \in 1..n |-> k] : n \in 0..MaxPanels } \cup { <<1, 1>> }

Query(op, channel, property, value) ==
    [op |-> op, channel |-> channel, property |-> property, value |-> value]

\* get_xfce4_shortcut: the queries it runs and the value it returns
GetShortcutQueries(store, key) ==
    <<Query("get", "xfce4-keyboard-shortcuts", <<"/commands/custom", key>>, NoValue)>>
    \o IF store.custom[key] = NoValue
       THEN <<Query("get", "xfce4-keyboard-shortcuts",
                    <<"/commands/default", key>>, NoValue)>>
       ELSE <<>>

get_xfce4_shortcut(store, key) ==
    IF store.custom[key] # NoValue THEN store.custom[key] ELSE store.default[key]

\* read_panels, lines 272-289 and 291-304: the queries of a panel (its
\* properties, and the name and the properties of each of its plugins; the
\* plugins of the pool are clocks)
PanelQueries(store, id) ==
    [n \in DOMAIN panel_properties |->
        Query("get", "xfce4-panel", <<"/panels", id, panel_properties[n][1]>>, NoValue)]
    \o [n \in DOMAIN store.panels[id]["plugin-ids"] |->
          Query("get", "xfce4-panel",
                <<"/plugins", store.panels[id]["plugin-ids"][n]>>, NoValue)]
    \o [n \in DOMAIN store.panels[id]["plugin-ids"] |->
          Query("get", "xfce4-panel",
                <<"/plugins", store.panels[id]["plugin-ids"][n], "digital-format">>,
                NoValue)]

\* the panels read_panels reads before it returns: all of them, or those
\* before the first identifier that is there twice
RECURSIVE ReadQueries(_, _, _)
ReadQueries(store, ids, seen) ==
    IF ids = <<>> \/ ids[1] \in seen THEN <<>>
    ELSE PanelQueries(store, ids[1])
            \o ReadQueries(store, Tail(ids), seen \cup {ids[1]})

\* configure(): the calls of set_panel_prop it makes if each returns True,
\* for the panels in the order of their identifiers
RECURSIVE Settings(_, _)
Settings(panels, ids) ==
    IF ids = <<>> THEN <<>>
    ELSE (CASE panels[ids[1]]["position"] = "p=10;x=0;y=0" ->
                 << <<ids[1], "position-locked", TRUE>>, <<ids[1], "length", 0>>,
                    <<ids[1], "autohide-behavior", 2>> >>
            [] panels[ids[1]]["position"] = "p=6;x=0;y=0" ->
                 << <<ids[1], "position-locked", TRUE>>, <<ids[1], "length", 100>>,
                    <<ids[1], "autohide-behavior", 0>> >>
            [] OTHER -> <<>>)
         \o Settings(panels, Tail(ids))

InitXfce ==
    /\ \E argv \in ArgvPool, programs \in ProgramsPool,
          custom \in ShortcutsPool, default \in ShortcutsPool,
          ids \in PanelIdsPool :
          \E panels \in [Range(ids) -> PanelPool] :
             xfce = [argv |-> argv, programs |-> programs,
                     store |-> [custom |-> custom, default |-> default,
                                ids |-> ids, panels |-> panels],
                     store0 |-> [custom |-> custom, default |-> default,
                                 ids |-> ids, panels |-> panels],
                     do_for_real |-> FALSE, verbose |-> FALSE,
                     shortcut |-> 1, panels |-> <<>>, settings |-> <<>>,
                     queries |-> <<>>, dry_runs |-> 0,
                     returned |-> "none", raised |-> "none"]
    /\ pc = "xfce_main"
    /\ dconf = NotRun /\ pep8 = NotRun /\ header = NotRun /\ colorterm = NotRun
    /\ RunScriptsNotRun

\* main() up to the shortcuts (lines 378-403): the arguments, and
\* xfconf-query --version
XfceStart ==
    /\ pc = "xfce_main"
    /\ \E works \in BOOLEAN :
          /\ xfce' = [xfce EXCEPT
                !.do_for_real = ParseReal(xfce.argv),
                !.verbose = ParseVerbose(xfce.argv),
                !.queries = Append(@, Query("version", "", <<>>, NoValue)),
                !.returned = IF works THEN @ ELSE "False"]
          /\ pc' = IF works THEN "xfce_shortcuts" ELSE "xfce_returned"
    /\ UNCHANGED <<RunScripts, dconf, pep8, header, colorterm>>

\* one call of set_xfce4_shortcut_avail (lines 107-135); a False makes
\* configure_xfce4_shortcuts and main return False
XfceShortcut ==
    /\ pc = "xfce_shortcuts"
    /\ xfce.shortcut <= Len(SHORTCUTS)
    /\ LET key == SHORTCUTS[xfce.shortcut].key
           cmd == FirstAvailable(xfce.programs, SHORTCUTS[xfce.shortcut].progs)
           current_cmd == get_xfce4_shortcut(xfce.store, key)
           gets == GetShortcutQueries(xfce.store, key)
       IN  IF cmd = NoValue
           THEN /\ xfce' = [xfce EXCEPT !.shortcut = @ + 1]
                /\ pc' = pc
           ELSE IF current_cmd = cmd
           THEN /\ xfce' = [xfce EXCEPT !.shortcut = @ + 1, !.queries = @ \o gets]
                /\ pc' = pc
           ELSE IF ~xfce.do_for_real
           THEN /\ xfce' = [xfce EXCEPT !.shortcut = @ + 1, !.queries = @ \o gets,
                                        !.dry_runs = @ + 1]
                /\ pc' = pc
           ELSE \E result \in BOOLEAN :
                   /\ xfce' = [xfce EXCEPT
                         !.shortcut = @ + 1,
                         !.queries = @ \o gets \o
                            <<Query("set", "xfce4-keyboard-shortcuts",
                                    <<"/commands/custom", key>>, cmd)>>,
                         !.store.custom[key] = IF result THEN cmd ELSE @,
                         !.returned = IF result THEN @ ELSE "False"]
                   /\ pc' = IF result THEN pc ELSE "xfce_returned"
    /\ UNCHANGED <<RunScripts, dconf, pep8, header, colorterm>>

\* panels.read_config() (lines 270-334): read_panels, then
\* read_available_plugins, whose os.listdir raises OSError when the
\* directory of the plugins is not there
XfceReadConfig ==
    /\ pc = "xfce_shortcuts"
    /\ xfce.shortcut > Len(SHORTCUTS)
    /\ LET ids == xfce.store.ids
           reads == <<Query("get", "xfce4-panel", <<"/panels">>, NoValue)>>
                       \o ReadQueries(xfce.store, ids, {})
           duplicated == \E j, k \in DOMAIN ids : j # k /\ ids[j] = ids[k]
       IN  IF ids = <<>> \/ duplicated
           THEN /\ xfce' = [xfce EXCEPT !.queries = @ \o reads,
                                        !.returned = "False"]
                /\ pc' = "xfce_returned"
           ELSE \E listed \in BOOLEAN :
                   /\ xfce' = [xfce EXCEPT
                         !.queries = @ \o reads,
                         !.panels = xfce.store.panels,
                         !.settings = Settings(xfce.store.panels, ids),
                         !.raised = IF listed THEN @ ELSE "OSError"]
                   /\ pc' = IF listed THEN "xfce_configure" ELSE "xfce_raised"
    /\ UNCHANGED <<RunScripts, dconf, pep8, header, colorterm>>

\* one call of set_panel_prop (lines 212-256) of configure(): the command
\* that sets the value sets it, exits zero without setting it, or fails
XfcePanelProp ==
    /\ pc = "xfce_configure"
    /\ xfce.settings # <<>>
    /\ LET panel_id == xfce.settings[1][1]
           prop_name == xfce.settings[1][2]
           value == xfce.settings[1][3]
           prop_path == <<"/panels", panel_id, prop_name>>
           current_val == xfce.panels[panel_id][prop_name]
       IN  IF current_val = value
           THEN /\ xfce' = [xfce EXCEPT !.settings = Tail(@)]
                /\ pc' = pc
           ELSE IF ~xfce.do_for_real
           THEN /\ xfce' = [xfce EXCEPT !.settings = Tail(@), !.dry_runs = @ + 1]
                /\ pc' = pc
           ELSE \E outcome \in {"set", "ignored", "fails"} :
                   /\ xfce' = [xfce EXCEPT
                         !.settings = Tail(@),
                         !.queries = @
                            \o <<Query("set", "xfce4-panel", prop_path, value)>>
                            \o IF outcome = "fails" THEN <<>>
                               ELSE <<Query("get", "xfce4-panel", prop_path, NoValue)>>,
                         !.store.panels[panel_id][prop_name] =
                            IF outcome = "set" THEN value ELSE @,
                         !.returned = IF outcome = "set" THEN @ ELSE "False"]
                   /\ pc' = IF outcome = "set" THEN pc ELSE "xfce_returned"
    /\ UNCHANGED <<RunScripts, dconf, pep8, header, colorterm>>

\* configure() and main() return True
XfceReturn ==
    /\ pc = "xfce_configure"
    /\ xfce.settings = <<>>
    /\ xfce' = [xfce EXCEPT !.returned = "True"]
    /\ pc' = "xfce_returned"
    /\ UNCHANGED <<RunScripts, dconf, pep8, header, colorterm>>

NextXfce ==
    XfceStart \/ XfceShortcut \/ XfceReadConfig \/ XfcePanelProp \/ XfceReturn

SpecXfce == InitXfce /\ [][NextXfce]_vars

(***************************************************************************)
(* Vocabulary of the properties.                                           *)
(***************************************************************************)
\* the scripts on disk that have an entry
Declared == bin_dir \cap DOMAIN BIN_SCRIPTS

Pos(p) == CHOOSE k \in 1..Len(bin_files) : bin_files[k] = p

\* the loop is past the script
Handled(p) == i > Pos(p)

Terminal == {"Skipped", "Passed", "Failed"}

ChildrenOf(p) == {k \in 1..Len(children) : children[k].prog = p}

ErrorsOf(p) == {k \in 1..Len(log) : log[k].level = "ERROR" /\ log[k].prog = p}

Errors == {k \in 1..Len(log) : log[k].level = "ERROR"}

\* the grammar of a policy: an optional clause "(...)" and the mode after it
HasClause(spec) == StartsWith(spec, <<"(">>)

WellFormed(spec) == HasClause(spec) => Index(spec, ")") # 0

ClauseGroups(spec) ==
    IF HasClause(spec)
    THEN Range(Split(SubSeq(spec, 2, Index(spec, ")") - 1), ","))
    ELSE {}

Alternatives(group) == Range(Split(group, "|"))

\* a group is satisfied when one of its alternatives is installed
GroupSatisfied(group) == \E alt \in Alternatives(group) : is_installed(alt)

ModeText(spec) ==
    IF HasClause(spec) THEN SubSeq(spec, Index(spec, ")") + 1, Len(spec)) ELSE spec

IsArgsMode(mode) == StartsWith(mode, S_args) /\ EndsWith(mode, <<"]">>)

KnownMode(mode) == mode \in {S_never, S_direct, S_help} \/ IsArgsMode(mode)

\* a command line was built for the script
Built(p) == state[p] \in {"Resolved", "Running", "Passed"} \/ ChildrenOf(p) # {}

\* before the reconciliation, the result is a failure only if a script failed
FailureHasCause ==
    retval = FALSE => (\E p \in bin_dir : state[p] = "Failed") \/ unused_files # {}

\* the pieces joined by single spaces
RECURSIVE JoinSpaces(_)
JoinSpaces(tokens) ==
    IF Len(tokens) = 1 THEN tokens[1]
    ELSE tokens[1] \o <<" ">> \o JoinSpaces(Tail(tokens))

(***************************************************************************)
(* Properties.                                                             *)
(***************************************************************************)
\* C1: a script with a runnable mode and a well-formed dependency clause is
\* skipped iff some group of the clause has no installed alternative: a group
\* A|B is satisfied as soon as one of A, B is installed.
C1_AlternativesDisjunctive ==
    \A p \in Declared :
        LET spec == BIN_SCRIPTS[p]
        IN  (/\ HasClause(spec) /\ WellFormed(spec)
             /\ KnownMode(ModeText(spec)) /\ ModeText(spec) # S_never
             /\ Handled(p))
            => /\ state[p] = "Skipped"
                    <=> \E g \in ClauseGroups(spec) : ~GroupSatisfied(g)
               /\ state[p] = "Skipped" => ChildrenOf(p) = {} /\ ErrorsOf(p) = {}

\* C2: groups are conjunctive: a command line is built only if every group is
\* satisfied, and a script with an unsatisfied group is skipped, whatever its
\* mode.
C2_GroupsConjunctive ==
    \A p \in Declared :
        LET spec == BIN_SCRIPTS[p]
        IN  (HasClause(spec) /\ WellFormed(spec))
            => /\ Built(p) => \A g \in ClauseGroups(spec) : GroupSatisfied(g)
               /\ (Handled(p) /\ \E g \in ClauseGroups(spec) : ~GroupSatisfied(g))
                     => state[p] = "Skipped" /\ ChildrenOf(p) = {}
               /\ (\E g \in ClauseGroups(spec) : ~GroupSatisfied(g))
                     => build_cmdline_from_spec(p, spec).kind = "None"

C2_Witness ==
    \E p \in Declared :
        /\ Cardinality(ClauseGroups(BIN_SCRIPTS[p])) = 2
        /\ \E g \in ClauseGroups(BIN_SCRIPTS[p]) : GroupSatisfied(g)
        /\ \E g \in ClauseGroups(BIN_SCRIPTS[p]) : ~GroupSatisfied(g)
        /\ state[p] = "Skipped"

\* C3: a script whose mode is never, with or without a dependency clause, is
\* never spawned, is skipped once the loop has handled it, and is no cause of
\* a failure.
C3_NeverNotSpawned ==
    /\ \A p \in Declared :
          LET spec == BIN_SCRIPTS[p]
          IN  (WellFormed(spec) /\ ModeText(spec) = S_never)
              => /\ ChildrenOf(p) = {}
                 /\ ErrorsOf(p) = {}
                 /\ state[p] \in {"Pending", "Skipped"}
                 /\ Handled(p) => state[p] = "Skipped"
    /\ FailureHasCause

C3_Witness ==
    \E p \in Declared :
        /\ BIN_SCRIPTS[p] = <<"(", "a", ")">> \o S_never
        /\ is_installed(<<"a">>)
        /\ state[p] = "Skipped"
        /\ pc = "exited"

\* C4 as stated: a run that returns exits with 0 iff every executed script
\* exited zero, no entry is orphaned and no specification error occurred.
C4_Original ==
    pc = "exited" =>
        (exitcode = 0 <=>
            /\ \A k \in 1..Len(children) : children[k].exitcode = 0
            /\ DOMAIN BIN_SCRIPTS \subseteq bin_dir
            /\ \A p \in Declared :
                  build_cmdline_from_spec(p, BIN_SCRIPTS[p]).kind
                      \notin {"CheckError", "ValueError"})

\* C4 amended: the process exits with 0 iff every script on disk has an entry,
\* every entry resolves without error, every child was started and exited
\* zero, and no entry is orphaned; otherwise it exits with 1.
C4_ExitCode ==
    /\ exitcode \in {-1, 0, 1}
    /\ exitcode = -1 <=> pc \notin {"exited", "crashed"}
    /\ exitcode # -1 =>
        (exitcode = 0 <=>
            /\ bin_dir \subseteq DOMAIN BIN_SCRIPTS
            /\ DOMAIN BIN_SCRIPTS \subseteq bin_dir
            /\ \A p \in Declared :
                  build_cmdline_from_spec(p, BIN_SCRIPTS[p]).kind
                      \notin {"CheckError", "ValueError"}
            /\ exception # "OSError"
            /\ \A k \in 1..Len(children) :
                  children[k].status = "exited" /\ children[k].exitcode = 0)

C4_Witness ==
    /\ pc = "exited"
    /\ exitcode = 1
    /\ bin_dir \ DOMAIN BIN_SCRIPTS # {}
    /\ DOMAIN BIN_SCRIPTS \subseteq bin_dir
    /\ children # <<>>
    /\ \A k \in 1..Len(children) : children[k].exitcode = 0

\* C5: a script on disk without an entry is never spawned and never skipped;
\* once the loop has handled it, it is failed, an error is logged for it and
\* the result is a failure.
C5_MissingPolicyFails ==
    \A p \in bin_dir \ DOMAIN BIN_SCRIPTS :
        /\ ChildrenOf(p) = {}
        /\ state[p] \in {"Pending", "Failed"}
        /\ Handled(p) =>
              /\ state[p] = "Failed"
              /\ retval = FALSE
              /\ \E k \in ErrorsOf(p) :
                    log[k].msg = "unknown program, not in BIN_SCRIPTS"
        /\ exitcode # -1 => exitcode = 1

C5_Witness ==
    /\ pc = "exited"
    /\ \E p \in bin_dir \ DOMAIN BIN_SCRIPTS : state[p] = "Failed"
    /\ \E p \in Declared : state[p] = "Passed"

\* C6: the reconciliation reports exactly the entries whose script is not on
\* disk and, if there is one, makes the result a failure; with one orphaned
\* entry and every script on disk declared and passed or skipped, the only
\* error is the reconciliation's and the exit status is not 0.
C6_OrphansReported ==
    pc \in {"done", "exited"} =>
        /\ unused_files = DOMAIN BIN_SCRIPTS \ bin_dir
        /\ unused_files # {} =>
              /\ retval = FALSE
              /\ \E k \in Errors : log[k].msg = "declared but not found"
              /\ pc = "exited" => exitcode = 1
        /\ unused_files = {} =>
              ~\E k \in Errors : log[k].msg = "declared but not found"
        /\ (/\ Cardinality(DOMAIN BIN_SCRIPTS \ bin_dir) = 1
            /\ \A p \in bin_dir :
                  p \in DOMAIN BIN_SCRIPTS /\ state[p] \in {"Passed", "Skipped"})
           => /\ Cardinality(unused_files) = 1
              /\ Cardinality(Errors) = 1
              /\ retval = FALSE

C6_Witness ==
    /\ pc = "exited"
    /\ exitcode = 1
    /\ Cardinality(unused_files) = 1
    /\ \E p \in bin_dir : state[p] = "Passed"
    /\ \A p \in bin_dir : state[p] \in {"Passed", "Skipped"}

\* C7 as stated: a script whose mode is none of the four forms is failed, with
\* no child, whatever its dependency clause.
C7_Original ==
    \A p \in Declared :
        LET spec == BIN_SCRIPTS[p]
        IN  (WellFormed(spec) /\ ~KnownMode(ModeText(spec)) /\ Handled(p))
            => /\ state[p] = "Failed"
               /\ retval = FALSE
               /\ ChildrenOf(p) = {}

\* C7 amended: a script whose mode is none of the four forms is never spawned;
\* once handled it is either skipped by the dependency check, which comes
\* first, or failed with the error "unknown specification" and a failure
\* result, and it is failed whenever the policy has no dependency clause or
\* every alternative of the clause is installed; the loop goes on past it.
C7_UnknownModeFails ==
    \A p \in Declared :
        LET spec == BIN_SCRIPTS[p]
            r == build_cmdline_from_spec(p, spec)
        IN  (WellFormed(spec) /\ ~KnownMode(ModeText(spec)))
            => /\ ChildrenOf(p) = {}
               /\ state[p] \in {"Pending", "Skipped", "Failed"}
               /\ state[p] # "Pending" => Handled(p)
               /\ (Handled(p) /\ state[p] = "Skipped")
                     => r.kind = "None" /\ r.missing # <<>> /\ ErrorsOf(p) = {}
               /\ (Handled(p) /\ state[p] # "Skipped")
                     => /\ state[p] = "Failed"
                        /\ retval = FALSE
                        /\ \E k \in ErrorsOf(p) : log[k].msg = "unknown specification"
               /\ (Handled(p) /\ \A g \in ClauseGroups(spec) :
                                    \A alt \in Alternatives(g) : is_installed(alt))
                     => state[p] = "Failed"

C7_Witness ==
    \E p, q \in Declared :
        /\ BIN_SCRIPTS[p] = <<"(", "a", ")", "r", "u", "n">>
        /\ is_installed(<<"a">>)
        /\ state[p] = "Failed"
        /\ Pos(p) < Pos(q)
        /\ state[q] = "Passed"

\* C8: a run ends only after every script of the listing is skipped, passed or
\* failed and the reconciliation is done.
C8_NoEarlyEnd ==
    pc \in {"exited", "crashed"} =>
        /\ pc = "exited"
        /\ \A p \in bin_dir : state[p] \in Terminal

\* C9: a script one of whose dependency groups is unsatisfied resolves as a
\* never script does, is skipped once handled, and has no child and no error,
\* as every skipped script; the result is a failure only through a failed
\* script or an orphaned entry, so a run whose scripts are all skipped and
\* whose table is reconciled returns success.
C9_SkipIsNeutral ==
    /\ \A p \in Declared :
          LET spec == BIN_SCRIPTS[p]
          IN  (WellFormed(spec) /\ \E g \in ClauseGroups(spec) : ~GroupSatisfied(g))
              => /\ build_cmdline_from_spec(p, spec).kind
                       = build_cmdline_from_spec(p, S_never).kind
                 /\ state[p] \in {"Pending", "Skipped"}
                 /\ Handled(p) => state[p] = "Skipped"
    /\ \A p \in bin_dir :
          state[p] = "Skipped" => ChildrenOf(p) = {} /\ ErrorsOf(p) = {}
    /\ FailureHasCause
    /\ pc \in {"done", "exited"} =>
          (retval <=> /\ \A p \in bin_dir : state[p] # "Failed"
                      /\ DOMAIN BIN_SCRIPTS \subseteq bin_dir)
    /\ (/\ pc = "exited"
        /\ \A p \in bin_dir : state[p] = "Skipped"
        /\ DOMAIN BIN_SCRIPTS \subseteq bin_dir)
          => exitcode = 0

C9_Witness ==
    /\ pc = "exited"
    /\ exitcode = 0
    /\ bin_dir # {}
    /\ \E p \in Declared :
          /\ \E g \in ClauseGroups(BIN_SCRIPTS[p]) : ~GroupSatisfied(g)
          /\ ModeText(BIN_SCRIPTS[p]) # S_never
          /\ state[p] = "Skipped"

\* C10: the child of a script with policy args[T] gets the program name and
\* then the pieces of T between its single spaces: the pieces joined by one
\* space give T back, and no piece holds a space; for T = "a, b, c" they are
\* "a,", "b,", "c".
C10_ArgsSplitOnSpaces ==
    \A k \in 1..Len(children) :
        LET p == children[k].prog
            mode == ModeText(BIN_SCRIPTS[p])
            T == SubSeq(mode, Len(S_args) + 1, Len(mode) - 1)
            argv == children[k].argv
        IN  IsArgsMode(mode)
            => /\ Len(argv) >= 2
               /\ argv[1] = p
               /\ JoinSpaces(Tail(argv)) = T
               /\ \A n \in 2..Len(argv) : " " \notin Range(argv[n])
               /\ T = <<"a", ",", " ", "b", ",", " ", "c">>
                     => Tail(argv) = << <<"a", ",">>, <<"b", ",">>, <<"c">> >>

C10_Witness ==
    \E k \in 1..Len(children) :
        /\ ModeText(BIN_SCRIPTS[children[k].prog])
              = S_args \o <<"a", ",", " ", "b", ",", " ", "c", "]">>
        /\ children[k].status = "exited"

\* C11: the child of a script with mode help has the argument --help and no
\* other; once it has exited with 0 the script is passed, no error is logged
\* for it and it is no cause of a failure.
C11_HelpOnly ==
    /\ \A k \in 1..Len(children) :
          LET p == children[k].prog
          IN  ModeText(BIN_SCRIPTS[p]) = S_help
              => /\ children[k].argv = <<p, <<"-", "-", "h", "e", "l", "p">> >>
                 /\ (children[k].status = "exited" /\ children[k].exitcode = 0)
                       => state[p] = "Passed" /\ ErrorsOf(p) = {}
    /\ FailureHasCause

C11_Witness ==
    /\ pc = "exited"
    /\ exitcode = 0
    /\ \E k \in 1..Len(children) :
          /\ BIN_SCRIPTS[children[k].prog] = S_help
          /\ state[children[k].prog] = "Passed"

\* C12: the child of a script with mode direct has the program name as its
\* only argument, and so has the command line built for it.
C12_DirectNoArguments ==
    /\ \A k \in 1..Len(children) :
          ModeText(BIN_SCRIPTS[children[k].prog]) = S_direct
              => children[k].argv = <<children[k].prog>>
    /\ (pc \in {"run", "wait"} /\ ModeText(BIN_SCRIPTS[bin_files[i]]) = S_direct)
          => cmdline = <<bin_files[i]>>

C12_Witness ==
    \E k \in 1..Len(children) :
        /\ BIN_SCRIPTS[children[k].prog] = <<"(", "a", "|", "b", ")">> \o S_direct
        /\ children[k].status = "exited"

\* C13: every child, under every combination of the options, has the null
\* device as its standard input.
C13_StdinNull ==
    \A k \in 1..Len(children) : children[k].stdin = "devnull"

C13_Witness ==
    /\ opts.debug /\ opts.show_output /\ opts.verbose
    /\ \E k \in 1..Len(children) : ModeText(BIN_SCRIPTS[children[k].prog]) = S_direct
    /\ \E k \in 1..Len(children) : IsArgsMode(ModeText(BIN_SCRIPTS[children[k].prog]))

\* C14 as stated: without --show-output and --debug, no child has the
\* runner's standard output or standard error.
C14_Original ==
    (~opts.show_output /\ ~opts.debug)
        => \A k \in 1..Len(children) :
              children[k].stdout = "devnull" /\ children[k].stderr = "devnull"

\* C14 amended: without --show-output, --debug and --verbose, no child has the
\* runner's standard output or standard error; without --show-output and
\* --debug, no child has its standard output.
C14_DefaultDiscards ==
    /\ (~opts.show_output /\ ~opts.debug /\ ~opts.verbose)
          => \A k \in 1..Len(children) :
                children[k].stdout = "devnull" /\ children[k].stderr = "devnull"
    /\ (~opts.show_output /\ ~opts.debug)
          => \A k \in 1..Len(children) : children[k].stdout = "devnull"

C14_Witness ==
    /\ ~opts.show_output /\ ~opts.debug /\ ~opts.verbose
    /\ \E k \in 1..Len(children) : children[k].status = "exited"

\* C15: a child has the runner's standard output iff --show-output is set, and
\* then its command line is printed; it has the runner's standard error iff
\* --debug or --verbose is set; the logger emits debug records iff --debug is
\* set, info records iff --debug or --verbose is set, and errors always.
C15_OptionsAndStreams ==
    /\ \A k \in 1..Len(children) :
          /\ children[k].stdout = (IF opts.show_output THEN "inherit" ELSE "devnull")
          /\ children[k].printed <=> opts.show_output
          /\ children[k].stderr
                = (IF opts.debug \/ opts.verbose THEN "inherit" ELSE "devnull")
          /\ (\E n \in 1..Len(log) :
                 log[n].level = "INFO" /\ log[n].prog = children[k].prog)
                <=> (opts.debug \/ opts.verbose)
    /\ \A n \in 1..Len(log) :
          /\ log[n].level = "DEBUG" => opts.debug
          /\ log[n].level = "INFO" => opts.debug \/ opts.verbose
    /\ \A p \in bin_dir :
          /\ state[p] = "Skipped"
                => ((\E n \in 1..Len(log) :
                        log[n].level = "DEBUG" /\ log[n].prog = p) <=> opts.debug)
          /\ state[p] = "Failed" => ErrorsOf(p) # {}

C15_Witness ==
    /\ opts.verbose /\ ~opts.debug /\ ~opts.show_output
    /\ \E k \in 1..Len(children) : children[k].stderr = "inherit"
    /\ \E p \in bin_dir : state[p] = "Skipped"
    /\ \E p \in bin_dir : state[p] = "Failed"

\* C16: at most one child runs at a time; the children are spawned in
\* ascending order of their names, each after the one before it has exited.
C16_Sequential ==
    /\ Cardinality({k \in 1..Len(children) : children[k].status = "running"}) <= 1
    /\ \A j, k \in 1..Len(children) :
          j < k => /\ StrLess(children[j].prog, children[k].prog)
                   /\ children[j].status = "exited"
                   /\ ~(children[j].prog = <<"b">> /\ children[k].prog = <<"a", "b">>)
    /\ \A k \in 1..Len(children) :
          children[k].status = "running" => k = Len(children) /\ pc = "wait"

C16_Witness ==
    /\ Len(children) = 2
    /\ children[1].prog = <<"a", "b">>
    /\ children[2].prog = <<"b">>
    /\ children[2].status = "running"

\* the transitions of a script: those of the specification's state machine,
\* and the one of a script marked failed without having been run
SpecTransitions ==
    { <<"Pending", "Skipped">>, <<"Pending", "Resolved">>,
      <<"Resolved", "Running">>, <<"Running", "Passed">>, <<"Running", "Failed">> }

CodeTransitions == SpecTransitions \cup { <<"Pending", "Failed">> }

\* C17 as stated: a script only moves Pending -> Skipped | Resolved,
\* Resolved -> Running, Running -> Passed | Failed.
C17_Original ==
    [][\A p \in bin_dir :
          state'[p] # state[p] => <<state[p], state'[p]>> \in SpecTransitions]_vars

\* C17 amended: a script only moves Pending -> Skipped | Resolved | Failed,
\* Resolved -> Running, Running -> Passed | Failed; only the script the loop
\* is at moves, the loop never goes back, and it is past exactly the scripts
\* that are skipped, passed or failed.
C17_StateMachine ==
    /\ [][/\ \A p \in bin_dir :
                state'[p] # state[p]
                    => /\ <<state[p], state'[p]>> \in CodeTransitions
                       /\ i <= Len(bin_files) /\ p = bin_files[i]
          /\ i' \in {i, i + 1}]_vars
    /\ [](\A p \in bin_dir : Handled(p) <=> state[p] \in Terminal)

C17_Witness ==
    /\ pc = "exited"
    /\ \E p \in Declared : state[p] = "Failed" /\ ChildrenOf(p) = {}
    /\ \E p \in Declared : state[p] = "Failed" /\ ChildrenOf(p) # {}

\* C18: a child that has exited with a non-zero code leaves its script failed,
\* an error logged and the result a failure; no script has two children.
C18_NonZeroFailsNoRetry ==
    /\ \A k \in 1..Len(children) :
          (children[k].status = "exited" /\ children[k].exitcode # 0)
              => /\ state[children[k].prog] = "Failed"
                 /\ retval = FALSE
                 /\ \E n \in ErrorsOf(children[k].prog) :
                       log[n].msg = "program exited with code"
                 /\ exitcode # -1 => exitcode = 1
    /\ \A p \in bin_dir : Cardinality(ChildrenOf(p)) <= 1

C18_Witness ==
    /\ pc = "exited"
    /\ Len(children) = 2
    /\ children[1].exitcode = 1
    /\ children[2].exitcode = 0

\* C19: when every child that is spawned terminates, the process ends with an
\* exit status; while a child has not terminated the runner stays at its
\* wait: the only step is the termination of that child, no other script is
\* handled and no result is produced.
C19_Termination ==
    /\ <>(exitcode # -1)
    /\ [](pc = "wait" => /\ exitcode = -1
                         /\ children[Len(children)].status = "running"
                         /\ children[Len(children)].prog = bin_files[i])
    /\ [][pc = "wait" => /\ Len(children') = Len(children)
                         /\ children'[Len(children)].status = "exited"]_vars

C19_Witness ==
    /\ pc = "wait"
    /\ i < Len(bin_files)
    /\ state[bin_files[i + 1]] = "Pending"

\* what each token of ProgramPool is: an absolute path, a version constraint
\* python>=MAJOR.MINOR with its two numbers, or a bare name
DependencyTokens ==
    { \* python>=2.7
      [text |-> <<"p", "y", "t", "h", "o", "n", ">", "=", "2", ".", "7">>,
       kind |-> "version", major |-> 2, minor |-> 7],
      \* python>=3.6
      [text |-> <<"p", "y", "t", "h", "o", "n", ">", "=", "3", ".", "6">>,
       kind |-> "version", major |-> 3, minor |-> 6],
      \* python>=3.7
      [text |-> <<"p", "y", "t", "h", "o", "n", ">", "=", "3", ".", "7">>,
       kind |-> "version", major |-> 3, minor |-> 7],
      \* python>=3.10
      [text |-> <<"p", "y", "t", "h", "o", "n", ">", "=", "3", ".", "1", "0">>,
       kind |-> "version", major |-> 3, minor |-> 10],
      \* python>=1.5
      [text |-> <<"p", "y", "t", "h", "o", "n", ">", "=", "1", ".", "5">>,
       kind |-> "version", major |-> 1, minor |-> 5],
      \* python>=4.0
      [text |-> <<"p", "y", "t", "h", "o", "n", ">", "=", "4", ".", "0">>,
       kind |-> "version", major |-> 4, minor |-> 0],
      \* python>=3
      [text |-> <<"p", "y", "t", "h", "o", "n", ">", "=", "3">>,
       kind |-> "name", major |-> 0, minor |-> 0],
      \* /proc
      [text |-> <<"/", "p", "r", "o", "c">>,
       kind |-> "path", major |-> 0, minor |-> 0],
      \* /bin/a
      [text |-> <<"/", "b", "i", "n", "/", "a">>,
       kind |-> "path", major |-> 0, minor |-> 0],
      \* a
      [text |-> <<"a">>,
       kind |-> "name", major |-> 0, minor |-> 0],
      \* b
      [text |-> <<"b">>,
       kind |-> "name", major |-> 0, minor |-> 0],
      \* python
      [text |-> <<"p", "y", "t", "h", "o", "n">>,
       kind |-> "name", major |-> 0, minor |-> 0] }

TokenOf(text) == CHOOSE t \in DependencyTokens : t.text = text

\* the directories each value of PATHPool names, each as the prefix of the
\* paths of its entries (the empty component is the current directory, whose
\* entries have no prefix)
SearchPaths ==
    { \* /bin
      [text |-> <<"/", "b", "i", "n">>,
       prefixes |-> {<<"/", "b", "i", "n", "/">>}],
      \* /bin:/usr/bin
      [text |-> <<"/", "b", "i", "n", ":", "/", "u", "s", "r", "/", "b", "i", "n">>,
       prefixes |-> {<<"/", "b", "i", "n", "/">>, <<"/", "u", "s", "r", "/", "b", "i", "n", "/">>}],
      \* /usr/bin/
      [text |-> <<"/", "u", "s", "r", "/", "b", "i", "n", "/">>,
       prefixes |-> {<<"/", "u", "s", "r", "/", "b", "i", "n", "/">>}],
      \* ''
      [text |-> <<>>,
       prefixes |-> {<<>>}],
      \* /bin:
      [text |-> <<"/", "b", "i", "n", ":">>,
       prefixes |-> {<<"/", "b", "i", "n", "/">>, <<>>}] }

DirectoriesOf(text) == (CHOOSE sp \in SearchPaths : sp.text = text).prefixes

\* the order of (major, minor) tuples, minors being below 1000
TupleGE(v, major, minor) == v[1] * 1000 + v[2] >= major * 1000 + minor

\* whether token t is satisfied: a path iff it exists, a version constraint
\* (when it counts as one) iff the interpreter is at least that version, a
\* bare name iff some directory of PATH has an entry of that name
Satisfied(t, isConstraint) ==
    IF t.kind = "path" THEN t.text \in fs
    ELSE IF t.kind = "version" /\ isConstraint
    THEN TupleGE(version_info, t.major, t.minor)
    ELSE \E prefix \in DirectoriesOf(PATH) : (prefix \o t.text) \in fs

\* C20 as stated: is_installed returns whether the token is satisfied, every
\* python>=MAJOR.MINOR being a version constraint.
C20_Original ==
    pc = "returned" => installed = Satisfied(TokenOf(argument), TRUE)

\* C20 amended: is_installed returns whether the token is satisfied,
\* python>=MAJOR.MINOR being a version constraint when MAJOR is 2 or 3 and a
\* bare name otherwise.
C20_ByKind ==
    pc = "returned"
        => LET t == TokenOf(argument)
           IN  installed = Satisfied(t, t.major \in {2, 3})

\* python>=1.5 found as an entry of /bin under Python 3.6
C20_Witness ==
    /\ pc = "returned"
    /\ TokenOf(argument).major = 1
    /\ version_info = <<3, 6>>
    /\ installed

\* C22: the reconciliation is the step that leaves the loop; it is taken with
\* every script of the listing skipped, passed or failed, it reports the keys
\* of the table that are not in the listing whatever the scripts' outcomes,
\* and it spawns nothing; no child is ever one of an entry that is not in the
\* listing.
C22_ReconcileLast ==
    /\ [][(pc = "loop" /\ pc' = "done")
             => /\ \A p \in bin_dir : state[p] \in Terminal
                /\ unused_files' = DOMAIN BIN_SCRIPTS \ bin_dir
                /\ children' = children /\ state' = state]_vars
    /\ [](pc \in {"done", "exited"}
             => /\ \A p \in bin_dir : state[p] \in Terminal
                /\ unused_files = DOMAIN BIN_SCRIPTS \ bin_dir)
    /\ [](\A k \in 1..Len(children) :
             children[k].prog \notin DOMAIN BIN_SCRIPTS \ bin_dir)

C22_Witness ==
    /\ pc = "done"
    /\ unused_files # {}
    /\ \E p \in bin_dir : state[p] = "Failed" /\ ChildrenOf(p) # {}

\* C23: the result is success before the first script is handled, a failed
\* script or a reported orphan means it is failure, and no step takes it from
\* failure back to success.
C23_ResultMonotone ==
    /\ []((pc = "loop" /\ i = 1) => retval)
    /\ [][retval = FALSE => retval' = FALSE]_vars
    /\ []((\E p \in bin_dir : state[p] = "Failed") => ~retval)
    /\ [](unused_files # {} => ~retval)

C23_Witness ==
    /\ pc = "exited"
    /\ ~retval
    /\ unused_files = {}
    /\ Len(bin_files) = 2
    /\ state[bin_files[1]] = "Failed"
    /\ state[bin_files[2]] = "Passed"

\* the dependency clause of a policy, parentheses included
Clause(spec) == SubSeq(spec, 1, Index(spec, ")"))

\* texts after a clause: unknown modes and known ones
ModeTexts ==
    { <<"r", "u", "n">>, <<>>, S_args \o <<"a">>, S_never, S_direct, S_help }

\* the script the loop is at has a clause with an unsatisfied group
AtUnsatisfied ==
    /\ pc = "loop"
    /\ i <= Len(bin_files)
    /\ bin_files[i] \in DOMAIN BIN_SCRIPTS
    /\ HasClause(BIN_SCRIPTS[bin_files[i]])
    /\ WellFormed(BIN_SCRIPTS[bin_files[i]])
    /\ \E g \in ClauseGroups(BIN_SCRIPTS[bin_files[i]]) : ~GroupSatisfied(g)

\* C24: a clause with an unsatisfied group gives None whatever text follows
\* it, an unknown mode included; handling a script with such a policy marks
\* it skipped, logs no error and leaves the result as it was.
C24_DependenciesFirst ==
    /\ [](\A p \in Declared :
             LET spec == BIN_SCRIPTS[p]
             IN  (/\ HasClause(spec) /\ WellFormed(spec)
                  /\ \E g \in ClauseGroups(spec) : ~GroupSatisfied(g))
                 => \A m \in ModeTexts :
                       build_cmdline_from_spec(p, Clause(spec) \o m).kind = "None")
    /\ [][AtUnsatisfied
             => /\ state'[bin_files[i]] = "Skipped"
                /\ retval' = retval
                /\ Errors' = Errors
                /\ children' = children
                /\ pc' = "loop" /\ i' = i + 1]_vars

C24_Witness ==
    /\ pc = "exited"
    /\ exitcode = 0
    /\ \E p \in Declared :
          /\ HasClause(BIN_SCRIPTS[p])
          /\ ~KnownMode(ModeText(BIN_SCRIPTS[p]))
          /\ state[p] = "Skipped"

\* C25: every child is the child of a script of the listing that has an entry
\* whose clause is well formed, whose groups each have an installed
\* alternative and whose mode is direct, help or args[...]; there are no more
\* children than entries in the listing.
C25_SpawnedOnlyIfRunnable ==
    /\ \A k \in 1..Len(children) :
          LET p == children[k].prog
          IN  /\ p \in bin_dir
              /\ p \in DOMAIN BIN_SCRIPTS
              /\ WellFormed(BIN_SCRIPTS[p])
              /\ \A g \in ClauseGroups(BIN_SCRIPTS[p]) : GroupSatisfied(g)
              /\ \/ ModeText(BIN_SCRIPTS[p]) \in {S_direct, S_help}
                 \/ IsArgsMode(ModeText(BIN_SCRIPTS[p]))
    /\ Len(children) <= Cardinality(bin_dir)

C25_Witness ==
    /\ Len(children) = 2
    /\ Cardinality(bin_dir) = 2
    /\ \E k \in 1..2 :
          /\ HasClause(BIN_SCRIPTS[children[k].prog])
          /\ IsArgsMode(ModeText(BIN_SCRIPTS[children[k].prog]))

\* PATH has an empty component (the empty PATH has one)
HasEmptyComponent(path) ==
    \/ path = <<>>
    \/ path[1] = ":"
    \/ path[Len(path)] = ":"
    \/ \E k \in 1..(Len(path) - 1) : path[k] = ":" /\ path[k + 1] = ":"

\* C26: with an empty component in PATH, a bare name is installed iff it
\* exists as a path relative to the current directory or is an entry of one
\* of the other directories of PATH.
C26_EmptyComponent ==
    (/\ pc = "returned"
     /\ HasEmptyComponent(PATH)
     /\ TokenOf(argument).kind = "name")
        => (installed <=>
               \/ argument \in fs
               \/ \E prefix \in DirectoriesOf(PATH) \ {<<>>} :
                     (prefix \o argument) \in fs)

C26_Witness ==
    /\ pc = "returned"
    /\ PATH = <<>>
    /\ argument = <<"a">>
    /\ installed

\* C30: the table has 16 + 216 + 24 = 256 entries, and a call of
\* color_index2term raises nothing, returns a formatted entry for an index of
\* the table and the empty string for any other index.
C30_TableAndEveryIndex ==
    /\ Len(COLORS16_RGB) = 16 /\ Len(Cube) = 216 /\ Len(Grays) = 24
    /\ Len(COLORS256_RGB) = 256
    /\ pc = "index2term_done"
          => /\ colorterm.result.raised = "none"
             /\ colorterm.index \in 0..255 => Len(colorterm.result.text) > 0
             /\ colorterm.index \notin 0..255 => Len(colorterm.result.text) = 0

\* the value of a decimal digit
DigitValue(c) ==
    CASE c = "0" -> 0 [] c = "1" -> 1 [] c = "2" -> 2 [] c = "3" -> 3
      [] c = "4" -> 4 [] c = "5" -> 5 [] c = "6" -> 6 [] c = "7" -> 7
      [] c = "8" -> 8 [] c = "9" -> 9

\* a year of four digits
IsYear(t) == Len(t) = 4 /\ \A k \in 1..4 : t[k] \in Digits

YearValue(t) ==
    1000 * DigitValue(t[1]) + 100 * DigitValue(t[2])
        + 10 * DigitValue(t[3]) + DigitValue(t[4])

\* a single year in the range, or two increasing years in the range
AcceptableYears(y) ==
    \/ IsYear(y) /\ 2013 <= YearValue(y) /\ YearValue(y) < 2142
    \/ /\ Len(y) = 9 /\ y[5] = "-"
       /\ IsYear(SubSeq(y, 1, 4)) /\ IsYear(SubSeq(y, 6, 9))
       /\ 2013 <= YearValue(SubSeq(y, 1, 4))
       /\ YearValue(SubSeq(y, 1, 4)) < YearValue(SubSeq(y, 6, 9))
       /\ YearValue(SubSeq(y, 6, 9)) < 2142

\* C29: a line the pattern matches is accepted (check_copyline returns) iff
\* its year text is a year of four digits from 2013 to 2141 or two such years,
\* the first below the second, around a hyphen; for any other year text, and
\* for a line the pattern does not match, CheckError is raised, and no call
\* raises anything else.
C29_CopyrightYears ==
    pc = "copyline_done"
        => /\ header.result.kind \in {"None", "CheckError"}
           /\ header.input.matches
                 => (header.result.kind = "None"
                        <=> AcceptableYears(header.input.year))
           /\ ~header.input.matches => header.result.kind = "CheckError"

\* the range 2013-2141 accepted
C29_Witness ==
    /\ pc = "copyline_done"
    /\ header.input.year = <<"2", "0", "1", "3", "-", "2", "1", "4", "1">>
    /\ header.result.kind = "None"

\* the calls of write_if_needed of one merge
CallsOf(merge) == {n \in 1..Len(dconf.calls) : dconf.calls[n].merge = merge}

\* C27: a call of write_if_needed whose read succeeds writes (Dconf.write is
\* called) iff the value read is not the requested one, and the write command
\* is run iff moreover onlyprint is unset; after a first merge whose commands
\* all succeeded, the second merge of the file runs no write command, and
\* calls Dconf.write for no key unless onlyprint is set; with onlyprint set
\* no write command is run and the database stays as it was.
C27_WriteIfNeeded ==
    /\ \A n \in 1..Len(dconf.calls) :
          LET call == dconf.calls[n]
          IN  (n < Len(dconf.calls) \/ dconf.raised = "none")
              => /\ call.write <=> call.old_value # call.value
                 /\ call.command <=> (call.write /\ ~dconf.onlyprint)
    /\ \A n \in CallsOf(2) :
          /\ ~dconf.calls[n].command
          /\ ~dconf.onlyprint => ~dconf.calls[n].write
    /\ dconf.onlyprint
          => /\ \A n \in 1..Len(dconf.calls) : ~dconf.calls[n].command
             /\ dconf.db = dconf.db0
    /\ pc = "merged" => \A n \in 1..Len(dconf.config) :
                           dconf.onlyprint
                              \/ dconf.db[DconfKey(dconf.config[n])]
                                    = dconf.config[n].value

C27_Witness ==
    /\ pc = "merged"
    /\ ~dconf.onlyprint
    /\ Len(dconf.config) = 2
    /\ \A n \in CallsOf(1) : dconf.calls[n].command
    /\ Cardinality(CallsOf(2)) = 2

\* the python files of the walk, in its order
PythonFiles == SelectSeq(pep8.files, LAMBDA f : f.python)

\* what the probes found: the commands that do not exist, then the chosen one
NoneExists ==
    /\ Len(pep8.probed) = 3
    /\ \A n \in 1..3 : pep8.probed[n].outcome = "ENOENT"

ProbeFailed ==
    pep8.probed # <<>>
       /\ pep8.probed[Len(pep8.probed)].outcome = "CalledProcessError"

\* C28: the commands are probed in the order flake8, pycodestyle, pep8, each
\* only when the ones before it do not exist, and the first that exists is
\* chosen; test() returns 2 iff the interpreter is older than 2.7 or none of
\* the three exists, 1 iff the --help probe of the chosen one fails or the
\* check of a python file fails, and 0 otherwise; when the probe succeeded,
\* every python file of the walk is checked, in order, with the chosen
\* command, whatever the earlier checks gave.
C28_Pep8Result ==
    /\ \A n \in 1..Len(pep8.probed) :
          /\ pep8.probed[n].cmd = <<"flake8", "pycodestyle", "pep8">>[n]
          /\ n < Len(pep8.probed) => pep8.probed[n].outcome = "ENOENT"
    /\ pep8.pep8cmd # "None"
          => /\ pep8.pep8cmd = pep8.probed[Len(pep8.probed)].cmd
             /\ pep8.probed[Len(pep8.probed)].outcome \in {"help", "old help"}
    /\ \A n \in 1..Len(pep8.checked) : pep8.checked[n].cmd = pep8.pep8cmd
    /\ pc = "pep8_returned"
          => /\ pep8.returned \in {0, 1, 2}
             /\ pep8.returned = 2
                   <=> (pep8.version_info \in {<<2, 6>>} \/ NoneExists)
             /\ pep8.returned = 1
                   <=> \/ ProbeFailed
                       \/ \E n \in 1..Len(pep8.checked) : pep8.checked[n].failed
             /\ pep8.pep8cmd # "None"
                   => [n \in 1..Len(pep8.checked) |-> pep8.checked[n].file]
                         = PythonFiles

C28_Witness ==
    /\ pc = "pep8_returned"
    /\ pep8.returned = 1
    /\ pep8.pep8cmd = "pycodestyle"
    /\ Len(pep8.checked) = 2
    /\ pep8.checked[1].failed
    /\ ~pep8.checked[2].failed

\* the queries that set a value
SetQueries == {n \in 1..Len(xfce.queries) : xfce.queries[n].op = "set"}

\* C21: in a run whose command line has no --real (no option, or -n), no
\* query that sets a value is run, for a shortcut or for a panel property:
\* every query is xfconf-query --version or a read, and the settings of
\* both channels stay as they were.
C21_DryRunSetsNothing ==
    (xfce # NotRun /\ "-r" \notin Range(xfce.argv)) =>
        /\ SetQueries = {}
        /\ \A n \in 1..Len(xfce.queries) : xfce.queries[n].op \in {"version", "get"}
        /\ xfce.store = xfce.store0

\* a run with -n that returned True, where a shortcut and a panel property
\* both differ from the values wanted
C21_Witness ==
    /\ xfce # NotRun
    /\ pc = "xfce_returned"
    /\ xfce.returned = "True"
    /\ "-n" \in Range(xfce.argv) /\ "-r" \notin Range(xfce.argv)
    /\ xfce.programs # {}
    /\ xfce.store0.custom["<Primary><Alt>l"] = <<"xterm">>
    /\ \E id \in DOMAIN xfce.store0.panels :
          /\ xfce.store0.panels[id]["position"] = "p=10;x=0;y=0"
          /\ xfce.store0.panels[id]["length"] = 100
    /\ xfce.dry_runs >= 4
    /\ Len(xfce.queries) > 1
====
